---- MODULE Spec2Model ----
(***************************************************************************)
(* Verification model of the company-researcher agents:                    *)
(*   - TopicResearchAgent  (core/agents/topic_research_agent.py): the      *)
(*     ask / route / search-and-answer / summarize interview loop;         *)
(*   - CompanyResearchAgent (core/agents/company_researcher.py): the       *)
(*     orchestrator graph background -> {financial, market} -> summarize;  *)
(*   - BaseAgent (agents/base_agent.py): the grounding / gap-detection /   *)
(*     conditional-fill pipeline.                                          *)
(* Strings are sequences of one-character strings, so that lower(),        *)
(* strip() and the substring test are computed, not assumed.               *)
(***************************************************************************)
EXTENDS Integers, Sequences, FiniteSets, TLC

VARIABLES
    \* ---- TopicResearchAgent, one entry per topic agent ----
    node,          \* position of the agent's graph run
    messages,      \* TopicResearchState.messages: the transcript
    max_steps,     \* TopicResearchAgent.max_steps
    llm_calls,     \* language-model invocations made, by purpose
    search_calls,  \* TavilyClient.search invocations made
    results,       \* TopicResearchState.results
    llm_outputs,   \* the texts the language model may answer with
    \* ---- CompanyResearchAgent graph run ----
    ostatus,       \* "none" | "running" | "END" | "failed"
    task,          \* per parent node: "idle" | "running" | "finished" | "raised" | "cancelled"
    writes,        \* patches of the current superstep, not yet merged
    cstate,        \* CompanyResearchState (merged channel values)
    summarize_runs,   \* executions of CompanyResearchAgent._summarize_results
    summarize_input,  \* the state _summarize_results read when it ran
    \* ---- BaseAgent.run_agent_workflow ----
    gf_pc,         \* next stage of the gap-fill run
    gf_site_content,  \* pages returned by get_site_content
    gf_grounded,   \* record returned by _summarize_to_grounded_info
    gf_missing,    \* value returned by _check_missing_fields
    gf_search_input,  \* number of queries of the generated batch
    gf_final,      \* final_info
    gf_field,      \* the agent's field of the returned state
    gf_merge_input,   \* the search output handed to _process_data
    gf_log,        \* external calls and stages, in the order they happened
    \* ---- TavilyClient.search, one batch ----
    batch,         \* batch_search_input.queries
    calls,         \* the provider call made for each query of the batch
    search_pc,     \* "idle" | "gathering" | "returned" | "raised"
    search_output, \* the list TavilyClient.search returned
    \* ---- ResearchManager.perfrom_research ----
    mg_status,     \* "none" | "idle" | "running" | "END" | "failed"
    mg_node,       \* the node of the graph that is running
    mg_state,      \* ResearchState: the value of each declared field
    mg_started,    \* the nodes started so far, in order
    mg_last_return,   \* the object the last node returned (state.model_copy(update=...))
    crawl_calls,   \* TavilyClient.crawl invocations made
    \* ---- one CompanyResearchAgent serving several requests ----
    compiled_edges,   \* CompanyResearchAgent.compiled_graph: the edges it was compiled with
    requests,      \* per perform_research call: the state its invocation owns
    \* ---- BackgroundAgent (core/agents/background.py), one graph run ----
    bg_node,       \* the node of the background graph that runs next
    bg_messages,   \* BackgroundResearchState.messages
    bg_log,        \* external calls made, in order: crawl, llm, search
    bg_output,     \* what the graph hands to its caller (BackgroundOutput)
    wf_node,       \* linear workflow: the node to run next
    wf_state,      \* linear workflow: the shared ResearchState dict
    wf_log,        \* linear workflow: per node run, its search outcome and model calls
    ts_pc,         \* to_string call: "call" before it, "done" after it
    ts_response,   \* to_string call: the SearchResponse (self)
    ts_top_k,      \* to_string call: the argument top_k_candidates
    ts_lines       \* to_string call: the lines of the returned text

topicVars == <<node, messages, max_steps, llm_calls, search_calls, results, llm_outputs>>
orchVars  == <<ostatus, task, writes, cstate, summarize_runs, summarize_input>>
gapVars   == <<gf_pc, gf_site_content, gf_grounded, gf_missing, gf_search_input,
               gf_final, gf_field, gf_merge_input, gf_log>>
portVars  == <<batch, calls, search_pc, search_output>>
mgrVars   == <<mg_status, mg_node, mg_state, mg_started, mg_last_return, crawl_calls>>
concVars  == <<compiled_edges, requests>>
bgVars    == <<bg_node, bg_messages, bg_log, bg_output>>
wfVars    == <<wf_node, wf_state, wf_log>>
fmtVars   == <<ts_pc, ts_response, ts_top_k, ts_lines>>
vars == <<topicVars, orchVars, gapVars, portVars, mgrVars, concVars, bgVars, wfVars, fmtVars>>

(***************************************************************************)
(* Bounds of the model.                                                    *)
(***************************************************************************)
MaxStepsBound == 3      \* max_steps ranges over 0..MaxStepsBound
MaxResponses == 2       \* search responses returned for one batch
MaxDepth == 3           \* nesting depth of the records given to gap detection
MaxPages == 1           \* pages of site content
MaxQueries == 3         \* queries of one batch given to TavilyClient.search
MaxRequests == 2        \* concurrent perform_research calls on one CompanyResearchAgent

None == "None"

(***************************************************************************)
(* Python str helpers.                                                     *)
(***************************************************************************)
UpperChars == <<"A","B","C","D","E","F","G","H","I","J","K","L","M",
                "N","O","P","Q","R","S","T","U","V","W","X","Y","Z">>
LowerChars == <<"a","b","c","d","e","f","g","h","i","j","k","l","m",
                "n","o","p","q","r","s","t","u","v","w","x","y","z">>

LowerChar(c) ==
    IF \E i \in 1..Len(UpperChars) : UpperChars[i] = c
    THEN LowerChars[CHOOSE i \in 1..Len(UpperChars) : UpperChars[i] = c]
    ELSE c

\* str.lower()
lower(s) == [i \in 1..Len(s) |-> LowerChar(s[i])]

\* `sub in s` for strings
Contains(sub, s) ==
    \E i \in 0..(Len(s) - Len(sub)) : SubSeq(s, i + 1, i + Len(sub)) = sub

thank == <<"t","h","a","n","k">>

\* Texts the language model is given to answer with.
ThankYou   == <<"T","h","a","n","k"," ","y","o","u">>
THANKS     == <<"T","H","A","N","K","S">>
NoThanks   == <<"n","o"," ","t","h","a","n","k","s">>
Question   == <<"R","e","v","e","n","u","e","?">>
NearMiss   == <<"t","h","a","n"," ","k">>
EmptyText  == <<>>
Answer     == <<"5","M">>
InterviewerTexts == {ThankYou, THANKS, NoThanks, Question, NearMiss, EmptyText}
ExpertTexts == {Answer, THANKS}

\* The two TopicResearchAgent instances of the orchestrator.
Financial == "financial_health_research"
Market    == "market_position_research"
Agents == {Financial, Market}

(***************************************************************************)
(* Search port: SearchResponse and its rendering                           *)
(* (core/api_clients/tavily_client.py).                                    *)
(***************************************************************************)
DefaultTopK == 3

\* Stable insertion of candidate c into a list sorted by descending score.
RECURSIVE InsertByScore(_, _)
InsertByScore(c, sorted) ==
    IF sorted = <<>> THEN <<c>>
    ELSE IF Head(sorted).score >= c.score
         THEN <<Head(sorted)>> \o InsertByScore(c, Tail(sorted))
         ELSE <<c>> \o sorted

\* sorted(candidates, key=score, reverse=True)
RECURSIVE SortedByScore(_)
SortedByScore(cands) ==
    IF cands = <<>> THEN <<>>
    ELSE InsertByScore(cands[Len(cands)], SortedByScore(SubSeq(cands, 1, Len(cands) - 1)))

RECURSIVE CandidateLines(_)
CandidateLines(cands) ==
    IF cands = <<>> THEN <<>>
    ELSE LET c == Head(cands) IN
         <<[line |-> "title", of |-> c.title]>>
         \o (IF c.content # "" THEN <<[line |-> "snippet", of |-> c.title]>> ELSE <<>>)
         \o (IF c.score # 0 THEN <<[line |-> "score", of |-> c.title]>> ELSE <<>>)
         \o CandidateLines(Tail(cands))

\* A rendering that leaves out the candidates whose score is 0.
to_string_scored_only(r, top_k_candidates) ==
    LET top == SortedByScore(SelectSeq(r.candidates, LAMBDA c : c.score # 0))
        kept == SubSeq(top, 1, IF Len(top) < top_k_candidates THEN Len(top) ELSE top_k_candidates)
    IN  (IF r.query # "" THEN <<[line |-> "query", of |-> r.query]>> ELSE <<>>)
        \o (IF r.answer # None /\ r.answer # "" THEN <<[line |-> "answer", of |-> r.answer]>> ELSE <<>>)
        \o (IF Len(r.candidates) > 0
            THEN <<[line |-> "results", of |-> ""]>> \o CandidateLines(kept)
            ELSE <<>>)

\* SearchResponse.to_string: the lines of the rendering ('\n'.join(info)).
to_string(r, top_k_candidates) ==
    LET top == SortedByScore(r.candidates)
        kept == SubSeq(top, 1, IF Len(top) < top_k_candidates THEN Len(top) ELSE top_k_candidates)
    IN  (IF r.query # "" THEN <<[line |-> "query", of |-> r.query]>> ELSE <<>>)
        \o (IF r.answer # None /\ r.answer # "" THEN <<[line |-> "answer", of |-> r.answer]>> ELSE <<>>)
        \o (IF Len(r.candidates) > 0
            THEN <<[line |-> "results", of |-> ""]>> \o CandidateLines(kept)
            ELSE <<>>)

\* "\n########\n".join([res.to_string() for res in tavily_responses])
RECURSIVE JoinResponses(_)
JoinResponses(responses) ==
    IF responses = <<>> THEN <<>>
    ELSE IF Len(responses) = 1 THEN to_string(responses[1], DefaultTopK)
    ELSE to_string(responses[1], DefaultTopK)
         \o <<[line |-> "separator", of |-> ""]>>
         \o JoinResponses(Tail(responses))

Candidate == [title : {"t1"}, content : {"c"}, score : {9}]
SearchResponse == [query : {"", "q"}, answer : {None, "a"},
                   candidates : {<<>>} \cup {<<c>> : c \in Candidate}]

\* What one TavilyClient.search call may return.
SearchOutputs == UNION {[1..n -> SearchResponse] : n \in 0..MaxResponses}

(***************************************************************************)
(* TopicResearchAgent (core/agents/topic_research_agent.py).               *)
(***************************************************************************)
Message(name, content) == [name |-> name, content |-> content]

ExpertCount(msgs) == Cardinality({i \in 1..Len(msgs) : msgs[i].name = "Expert"})

\* Variants of the routing decision with one slip each.
route_case_sensitive(msgs, steps) ==
    LET expert_messages == SelectSeq(msgs, LAMBDA m : m.name = "Expert")
        last_interviewer_message == IF Len(msgs) > 0 THEN msgs[Len(msgs)].content ELSE None
    IN  IF Len(expert_messages) >= steps THEN "summarize_results"
        ELSE IF last_interviewer_message = None THEN "raised"
        ELSE IF Contains(thank, last_interviewer_message) THEN "summarize_results"
        ELSE "search_web_and_answer"

route_off_by_one(msgs, steps) ==
    LET expert_messages == SelectSeq(msgs, LAMBDA m : m.name = "Expert")
        last_interviewer_message == IF Len(msgs) > 0 THEN msgs[Len(msgs)].content ELSE None
    IN  IF Len(expert_messages) > steps THEN "summarize_results"
        ELSE IF last_interviewer_message = None THEN "raised"
        ELSE IF Contains(thank, lower(last_interviewer_message)) THEN "summarize_results"
        ELSE "search_web_and_answer"

route_exact_phrase(msgs, steps) ==
    LET expert_messages == SelectSeq(msgs, LAMBDA m : m.name = "Expert")
        last_interviewer_message == IF Len(msgs) > 0 THEN msgs[Len(msgs)].content ELSE None
    IN  IF Len(expert_messages) >= steps THEN "summarize_results"
        ELSE IF last_interviewer_message = None THEN "raised"
        ELSE IF last_interviewer_message = ThankYou THEN "summarize_results"
        ELSE "search_web_and_answer"

route_docstring_name(msgs, steps) ==
    LET expert_messages == SelectSeq(msgs, LAMBDA m : m.name = "Expert")
        last_interviewer_message == IF Len(msgs) > 0 THEN msgs[Len(msgs)].content ELSE None
    IN  IF Len(expert_messages) >= steps THEN "summarize_results"
        ELSE IF last_interviewer_message = None THEN "raised"
        ELSE IF Contains(thank, lower(last_interviewer_message)) THEN "summarize_results"
        ELSE "search_web"

route_back_to_ask(msgs, steps) ==
    LET expert_messages == SelectSeq(msgs, LAMBDA m : m.name = "Expert")
        last_interviewer_message == IF Len(msgs) > 0 THEN msgs[Len(msgs)].content ELSE None
    IN  IF Len(expert_messages) >= steps THEN "summarize_results"
        ELSE IF last_interviewer_message = None THEN "raised"
        ELSE IF Contains(thank, lower(last_interviewer_message)) THEN "summarize_results"
        ELSE "ask_question"

\* TopicResearchAgent.route_to_search_or_summarize
route_to_search_or_summarize(msgs, steps) ==
    LET expert_messages == SelectSeq(msgs, LAMBDA m : m.name = "Expert")
        last_interviewer_message == IF Len(msgs) > 0 THEN msgs[Len(msgs)].content ELSE None
    IN  IF Len(expert_messages) >= steps THEN "summarize_results"
        ELSE IF last_interviewer_message = None THEN "raised"
        ELSE IF Contains(thank, lower(last_interviewer_message)) THEN "summarize_results"
        ELSE "search_web_and_answer"

NoCalls == [ask |-> 0, queries |-> 0, answer |-> 0, summarize |-> 0]

\* graph.add_edge(START, "ask_question")
TopicStart(a) ==
    /\ node[a] = "START"
    /\ node' = [node EXCEPT ![a] = "ask_question"]
    /\ UNCHANGED <<messages, max_steps, llm_calls, search_calls, results, llm_outputs>>

\* The returned message replaces the transcript instead of being added to it.
AskQuestionReplacing(a) ==
    /\ node[a] = "ask_question"
    /\ \E text \in llm_outputs.interviewer :
          messages' = [messages EXCEPT ![a] = <<Message("Interviewer", text)>>]
    /\ llm_calls' = [llm_calls EXCEPT ![a].ask = @ + 1]
    /\ node' = [node EXCEPT ![a] = "route"]
    /\ UNCHANGED <<max_steps, search_calls, results, llm_outputs>>

\* TopicResearchAgent._ask_question
AskQuestion(a) ==
    /\ node[a] = "ask_question"
    /\ \E text \in llm_outputs.interviewer :
          messages' = [messages EXCEPT ![a] = Append(@, Message("Interviewer", text))]
    /\ llm_calls' = [llm_calls EXCEPT ![a].ask = @ + 1]
    /\ node' = [node EXCEPT ![a] = "route"]
    /\ UNCHANGED <<max_steps, search_calls, results, llm_outputs>>

\* The conditional edge out of ask_question.
Route(a) ==
    /\ node[a] = "route"
    /\ node' = [node EXCEPT ![a] = route_to_search_or_summarize(messages[a], max_steps[a])]
    /\ UNCHANGED <<messages, max_steps, llm_calls, search_calls, results, llm_outputs>>

\* TopicResearchAgent._search_web_and_answer, given what the search returned
SearchAndAnswerWith(a, tavily_responses) ==
    /\ node[a] = "search_web_and_answer"
    /\ search_calls' = [search_calls EXCEPT ![a] = @ + 1]
    /\ LET search_results == JoinResponses(tavily_responses) IN
          IF search_results = <<>>
          THEN \* raise ValueError("No search results found. ...")
               /\ node' = [node EXCEPT ![a] = "raised"]
               /\ llm_calls' = [llm_calls EXCEPT ![a].queries = @ + 1]
               /\ UNCHANGED messages
          ELSE /\ \E text \in llm_outputs.expert :
                     messages' = [messages EXCEPT ![a] = Append(@, Message("Expert", text))]
               /\ llm_calls' = [llm_calls EXCEPT ![a].queries = @ + 1, ![a].answer = @ + 1]
               /\ node' = [node EXCEPT ![a] = "ask_question"]
    /\ UNCHANGED <<max_steps, results, llm_outputs>>

\* TopicResearchAgent._search_web_and_answer, for any list the search returns
SearchWebAndAnswer(a) ==
    \E tavily_responses \in SearchOutputs : SearchAndAnswerWith(a, tavily_responses)

\* summarize_results wired back into the loop instead of to END.
SummarizeResultsLooping(a) ==
    /\ node[a] = "summarize_results"
    /\ llm_calls' = [llm_calls EXCEPT ![a].summarize = @ + 1]
    /\ results' = [results EXCEPT ![a] = <<[summary_of |-> a, turns |-> Len(messages[a])]>>]
    /\ node' = [node EXCEPT ![a] = "ask_question"]
    /\ UNCHANGED <<messages, max_steps, search_calls, llm_outputs>>

\* TopicResearchAgent._summarize_results, then the edge to END
SummarizeResults(a) ==
    /\ node[a] = "summarize_results"
    /\ llm_calls' = [llm_calls EXCEPT ![a].summarize = @ + 1]
    /\ results' = [results EXCEPT ![a] = <<[summary_of |-> a, turns |-> Len(messages[a])]>>]
    /\ node' = [node EXCEPT ![a] = "END"]
    /\ UNCHANGED <<messages, max_steps, search_calls, llm_outputs>>

TopicStep(a) ==
    \/ TopicStart(a)
    \/ AskQuestion(a)
    \/ Route(a)
    \/ SearchWebAndAnswer(a)
    \/ SummarizeResults(a)


(***************************************************************************)
(* CompanyResearchAgent (core/agents/company_researcher.py): the graph     *)
(* background_research -> {financial_health_research,                      *)
(* market_position_research} -> summarize_results, run in supersteps: the  *)
(* nodes triggered together run concurrently, their patches are merged     *)
(* when all of them have returned, and their successors are triggered.      *)
(***************************************************************************)
Background == "background_research"
Summarize  == "summarize_results"
ParentNodes == {Background, Financial, Market, Summarize}

\* A mis-wired graph: summarize_results hangs off background_research
\* instead of market_position_research.
EdgesMiswired == {<<"START", Background>>,
                  <<Background, Financial>>, <<Background, Market>>,
                  <<Financial, Summarize>>, <<Background, Summarize>>,
                  <<Summarize, "END">>}

\* The add_edge calls of CompanyResearchAgent.__init__
Edges == {<<"START", Background>>,
          <<Background, Financial>>, <<Background, Market>>,
          <<Financial, Summarize>>, <<Market, Summarize>>,
          <<Summarize, "END">>}

\* Order in which the patches of one superstep are merged.
NodeOrder == <<Background, Financial, Market, Summarize>>

\* CompanyResearchState as created from CompanyResearchInput
InitialState == [messages |-> <<>>, company_background |-> None, results |-> <<>>]
NoPatch == [messages |-> <<>>, company_background |-> None, results |-> <<>>]

\* results declared without the operator.add reducer: the last patch wins.
ApplyPatchLastValue(state, patch) ==
    [messages |-> state.messages \o patch.messages,
     company_background |-> IF patch.company_background # None
                            THEN patch.company_background
                            ELSE state.company_background,
     results |-> IF patch.results # <<>> THEN patch.results ELSE state.results]

\* Channel update: messages (MessagesState) adds the returned messages,
\* company_background is last-value, results is Annotated[list, operator.add]
ApplyPatch(state, patch) ==
    [messages |-> state.messages \o patch.messages,
     company_background |-> IF patch.company_background # None
                            THEN patch.company_background
                            ELSE state.company_background,
     results |-> state.results \o patch.results]

RECURSIVE ApplyPatches(_, _, _)
ApplyPatches(state, w, order) ==
    IF order = <<>> THEN state
    ELSE ApplyPatches(ApplyPatch(state, w[Head(order)]), w, Tail(order))

Successors(finished) == {m \in ParentNodes \cup {"END"} : \E n \in finished : <<n, m>> \in Edges}

\* CompanyResearchAgent.perform_research: compiled_graph.ainvoke(research_input)
PerformResearch ==
    /\ ostatus = "idle"
    /\ ostatus' = "running"
    /\ cstate' = InitialState
    /\ task' = [n \in ParentNodes |-> IF <<"START", n>> \in Edges THEN "running" ELSE "idle"]
    /\ UNCHANGED <<writes, summarize_runs, summarize_input, topicVars>>

\* The compiled BackgroundAgent sub-graph, run as the node background_research,
\* reached END: its output schema hands company_background to the parent
\* state (internal_messages is no field of CompanyResearchState), and the
\* state of the sub-graph run is gone.
BackgroundResearch ==
    /\ ostatus = "running"
    /\ task[Background] = "running"
    /\ bg_node = "END"
    /\ task' = [task EXCEPT ![Background] = "finished"]
    /\ writes' = [writes EXCEPT ![Background] =
                     [NoPatch EXCEPT !.company_background = bg_output.company_background]]
    /\ bg_node' = "idle"
    /\ bg_messages' = <<>>
    /\ bg_log' = <<>>
    /\ bg_output' = [company_background |-> None, internal_messages |-> <<>>]
    /\ UNCHANGED <<ostatus, cstate, summarize_runs, summarize_input, topicVars>>

\* The BackgroundAgent sub-graph raised: the node fails.
BackgroundRaise ==
    /\ ostatus = "running"
    /\ task[Background] = "running"
    /\ bg_node = "raised"
    /\ task' = [task EXCEPT ![Background] = "raised"]
    /\ UNCHANGED <<ostatus, writes, cstate, summarize_runs, summarize_input, topicVars, bgVars, wfVars, fmtVars>>

\* A step of the TopicResearchAgent sub-graph running as node a.
BranchStep(a) ==
    /\ ostatus = "running"
    /\ task[a] = "running"
    /\ TopicStep(a)
    /\ UNCHANGED orchVars

\* A sub-graph whose output carried its messages as well.
BranchReturnWithTranscript(a) ==
    /\ ostatus = "running"
    /\ task[a] = "running"
    /\ node[a] = "END"
    /\ task' = [task EXCEPT ![a] = "finished"]
    /\ writes' = [writes EXCEPT ![a] = [NoPatch EXCEPT !.results = results[a],
                                                       !.messages = messages[a]]]
    /\ UNCHANGED <<ostatus, cstate, summarize_runs, summarize_input, topicVars>>

\* The sub-graph of node a reached END: of its state only the keys of
\* TopicResearchOutput are handed to the parent, results being the one written.
BranchReturn(a) ==
    /\ ostatus = "running"
    /\ task[a] = "running"
    /\ node[a] = "END"
    /\ task' = [task EXCEPT ![a] = "finished"]
    /\ writes' = [writes EXCEPT ![a] = [NoPatch EXCEPT !.results = results[a]]]
    /\ UNCHANGED <<ostatus, cstate, summarize_runs, summarize_input, topicVars>>

\* The sub-graph of node a raised: the node fails.
BranchRaise(a) ==
    /\ ostatus = "running"
    /\ task[a] = "running"
    /\ node[a] = "raised"
    /\ task' = [task EXCEPT ![a] = "raised"]
    /\ UNCHANGED <<ostatus, writes, cstate, summarize_runs, summarize_input, topicVars>>

\* CompanyResearchAgent._summarize_results
OrchSummarizeResults ==
    /\ ostatus = "running"
    /\ task[Summarize] = "running"
    /\ summarize_input' = cstate
    /\ summarize_runs' = summarize_runs + 1
    /\ task' = [task EXCEPT ![Summarize] = "finished"]
    /\ UNCHANGED <<ostatus, writes, cstate, topicVars>>

\* End of a superstep: every triggered node has returned; merge the patches
\* and trigger the successors (a sub-graph node is started on the merged state).
Superstep ==
    LET current == {n \in ParentNodes : task[n] \in {"running", "finished", "raised"}}
        next == Successors(current)
    IN  /\ ostatus = "running"
        /\ current # {}
        /\ \A n \in current : task[n] = "finished"
        /\ cstate' = ApplyPatches(cstate, writes, NodeOrder)
        /\ writes' = [n \in ParentNodes |-> NoPatch]
        /\ task' = [n \in ParentNodes |->
                      IF n \in next THEN "running"
                      ELSE IF n \in current THEN "done" ELSE task[n]]
        /\ ostatus' = IF next \cap ParentNodes = {} THEN "END" ELSE "running"
        /\ node' = [a \in Agents |-> IF a \in next THEN "START" ELSE node[a]]
        /\ messages' = [a \in Agents |-> IF a \in next THEN <<>> ELSE messages[a]]
        /\ results' = [a \in Agents |-> IF a \in next THEN <<>> ELSE results[a]]
        /\ UNCHANGED <<max_steps, llm_calls, search_calls, llm_outputs,
                       summarize_runs, summarize_input>>

\* A node raised: ainvoke raises, the nodes still running are cancelled.
OrchAbort ==
    /\ ostatus = "running"
    /\ \E n \in ParentNodes : task[n] = "raised"
    /\ ostatus' = "failed"
    /\ task' = [n \in ParentNodes |-> IF task[n] = "running" THEN "cancelled" ELSE task[n]]
    /\ UNCHANGED <<writes, cstate, summarize_runs, summarize_input, topicVars>>

(***************************************************************************)
(* BaseAgent (agents/base_agent.py): the gap-fill pipeline.                *)
(* A Python value is a record [t, v]: t is its type, v a sequence holding  *)
(* its characters (str), its number (num), its items (list), or its field  *)
(* values in declaration order (model: a pydantic BaseModel; dict).        *)
(***************************************************************************)
PyNone == [t |-> "none", v |-> <<>>]
PyStr(chars) == [t |-> "str", v |-> chars]
PyNum(n) == [t |-> "num", v |-> <<n>>]
PyList(items) == [t |-> "list", v |-> items]
PyModel(values) == [t |-> "model", v |-> values]
PyDict(values) == [t |-> "dict", v |-> values]

PyTrue == "True"
PyFalse == "False"

\* bool(x) for the values a predicate returns
Truthy(x) == x = PyTrue

Whitespace == {" ", "\t", "\n"}

RECURSIVE lstrip(_)
lstrip(s) == IF s # <<>> /\ Head(s) \in Whitespace THEN lstrip(Tail(s)) ELSE s

RECURSIVE rstrip(_)
rstrip(s) == IF s # <<>> /\ s[Len(s)] \in Whitespace THEN rstrip(SubSeq(s, 1, Len(s) - 1)) ELSE s

\* str.strip()
strip(s) == rstrip(lstrip(s))

\* BaseModel.model_dump(): nested models become dicts, also inside lists
RECURSIVE model_dump(_)
model_dump(x) ==
    IF x.t \in {"model", "dict"} THEN PyDict([i \in 1..Len(x.v) |-> model_dump(x.v[i])])
    ELSE IF x.t = "list" THEN PyList([i \in 1..Len(x.v) |-> model_dump(x.v[i])])
    ELSE x

\* has_missing_fields, the inner function of BaseAgent._check_missing_fields:
\* it returns True, or falls off its end (None)
RECURSIVE has_missing_fields(_)
has_missing_fields(data) ==
    IF data.t = "none" THEN PyTrue
    ELSE IF data.t = "str" /\ strip(data.v) = <<>> THEN PyTrue
    ELSE IF data.t = "list" /\ Len(data.v) = 0 THEN PyTrue
    ELSE IF data.t = "dict" /\ \E i \in 1..Len(data.v) : Truthy(has_missing_fields(data.v[i]))
         THEN PyTrue
    ELSE IF data.t = "list" /\ \E i \in 1..Len(data.v) : Truthy(has_missing_fields(data.v[i]))
         THEN PyTrue
    ELSE None

\* Gap detection that does not look into the items of a list.
check_missing_fields_flat_lists(grounded_info) ==
    LET RECURSIVE scan(_)
        scan(data) ==
            IF data.t = "none" THEN PyTrue
            ELSE IF data.t = "str" /\ strip(data.v) = <<>> THEN PyTrue
            ELSE IF data.t = "list" /\ Len(data.v) = 0 THEN PyTrue
            ELSE IF data.t = "dict" /\ \E i \in 1..Len(data.v) : Truthy(scan(data.v[i]))
                 THEN PyTrue
            ELSE None
    IN  scan(model_dump(grounded_info))

\* BaseAgent._check_missing_fields
check_missing_fields(grounded_info) == has_missing_fields(model_dump(grounded_info))

\* Records handed to gap detection: leaves, and lists / nested models that
\* hold one value of the level below, alone or next to one populated sibling.
Leaves == {PyNone, PyStr(<<>>), PyStr(<<" ">>), PyStr(<<" ", "\t">>), PyStr(<<"a">>),
           PyStr(<<" ", "a">>), PyNum(0), PyList(<<>>)}
Siblings == {PyStr(<<"a">>)}
Around(x) == {<<x>>} \cup {<<x, s>> : s \in Siblings} \cup {<<s, x>> : s \in Siblings}

RECURSIVE Values(_)
Values(depth) ==
    IF depth = 0 THEN Leaves
    ELSE Leaves \cup {PyList(items) : items \in UNION {Around(x) : x \in Values(depth - 1)}}
                \cup {PyModel(items) : items \in UNION {Around(x) : x \in Values(depth - 1)}}

\* What the grounding call may return: an instance of the output type.
GroundedRecords == {x \in Values(MaxDepth) : x.t = "model"}

\* What the merging call may return: the language model is free to return
\* any instance of the output type.
MergedRecords(grounded) ==
    {grounded, PyModel(<<PyStr(<<"a">>)>>), PyModel(<<PyNone>>)}

Page == [url |-> "u", raw_content |-> "text"]
SiteContents == UNION {[1..n -> {Page}] : n \in 0..MaxPages}

\* config.get('max_queries', 5)
DefaultMaxQueries == 5
\* Sizes of the batch the query-generating call may return.
QueryCounts == {0, DefaultMaxQueries, DefaultMaxQueries + 1}

\* Grounding without the guard against empty content.
NoContentUnchecked(site_content) == FALSE

\* `if not site_content:` of _summarize_to_grounded_info
NoContent(site_content) == site_content = <<>>

\* The workflow without the short-circuit: it always searches and merges.
NextStageAlwaysFill(stage, missing_information) ==
    CASE stage = "get_site_content" -> "summarize_to_grounded_info"
      [] stage = "summarize_to_grounded_info" -> "check_missing_fields"
      [] stage = "check_missing_fields" -> "generate_queries"
      [] stage = "generate_queries" -> "search"
      [] stage = "search" -> "process_data"
      [] stage = "process_data" -> "return"
      [] stage = "return" -> "done"

\* The workflow with the merge placed before the search.
NextStageMergeFirst(stage, missing_information) ==
    CASE stage = "get_site_content" -> "summarize_to_grounded_info"
      [] stage = "summarize_to_grounded_info" -> "check_missing_fields"
      [] stage = "check_missing_fields" ->
            IF Truthy(missing_information) THEN "generate_queries" ELSE "return"
      [] stage = "generate_queries" -> "process_data"
      [] stage = "process_data" -> "search"
      [] stage = "search" -> "return"
      [] stage = "return" -> "done"

\* The statement order of BaseAgent.run_agent_workflow.
NextStage(stage, missing_information) ==
    CASE stage = "get_site_content" -> "summarize_to_grounded_info"
      [] stage = "summarize_to_grounded_info" -> "check_missing_fields"
      [] stage = "check_missing_fields" ->
            IF Truthy(missing_information) THEN "generate_queries" ELSE "return"
      [] stage = "generate_queries" -> "search"
      [] stage = "search" -> "process_data"
      [] stage = "process_data" -> "return"
      [] stage = "return" -> "done"

\* BaseAgent.get_site_content: the pages already in the state
GetSiteContent ==
    /\ gf_pc = "get_site_content"
    /\ \E pages \in SiteContents : gf_site_content' = pages
    /\ gf_log' = Append(gf_log, "get_site_content")
    /\ gf_pc' = NextStage(gf_pc, gf_missing)
    /\ UNCHANGED <<gf_grounded, gf_missing, gf_search_input, gf_final, gf_field, gf_merge_input>>

\* BaseAgent._summarize_to_grounded_info
SummarizeToGroundedInfo ==
    /\ gf_pc = "summarize_to_grounded_info"
    /\ IF NoContent(gf_site_content)
       THEN \* raise ValueError("No ... content found on the site.")
            /\ gf_pc' = "raised"
            /\ UNCHANGED <<gf_grounded, gf_log>>
       ELSE /\ \E response \in GroundedRecords : gf_grounded' = response
            /\ gf_log' = Append(gf_log, "llm_ground")
            /\ gf_pc' = NextStage(gf_pc, gf_missing)
    /\ UNCHANGED <<gf_site_content, gf_missing, gf_search_input, gf_final, gf_field, gf_merge_input>>

\* missing_information = self._check_missing_fields(grounded_info), and the
\* else branch final_info = grounded_info
CheckMissingFields ==
    /\ gf_pc = "check_missing_fields"
    /\ gf_missing' = check_missing_fields(gf_grounded)
    /\ gf_log' = Append(gf_log, "check_missing_fields")
    /\ gf_pc' = NextStage(gf_pc, gf_missing')
    /\ gf_final' = IF gf_pc' = "return" THEN gf_grounded ELSE gf_final
    /\ UNCHANGED <<gf_site_content, gf_grounded, gf_search_input, gf_field, gf_merge_input>>

\* BaseAgent._generate_queries_for_missing_info
GenerateQueries ==
    /\ gf_pc = "generate_queries"
    /\ \E n \in QueryCounts : gf_search_input' = n
    /\ gf_log' = Append(gf_log, "llm_queries")
    /\ gf_pc' = NextStage(gf_pc, gf_missing)
    /\ UNCHANGED <<gf_site_content, gf_grounded, gf_missing, gf_final, gf_field, gf_merge_input>>

\* await self.tavily_client.search(search_input): returns, or raises a
\* provider error that run_agent_workflow does not catch
Search ==
    /\ gf_pc = "search"
    /\ gf_log' = Append(gf_log, "search")
    /\ \E returned \in BOOLEAN :
          gf_pc' = IF returned THEN NextStage(gf_pc, gf_missing) ELSE "raised"
    /\ UNCHANGED <<gf_site_content, gf_grounded, gf_missing, gf_search_input, gf_final, gf_field, gf_merge_input>>

\* BaseAgent._process_data
ProcessData ==
    /\ gf_pc = "process_data"
    /\ \E merged \in MergedRecords(gf_grounded) : gf_final' = merged
    /\ gf_merge_input' = search_output
    /\ gf_log' = Append(gf_log, "llm_merge")
    /\ gf_pc' = NextStage(gf_pc, gf_missing)
    /\ UNCHANGED <<gf_site_content, gf_grounded, gf_missing, gf_search_input, gf_field>>

\* return state.model_copy(update=state_updates)
ReturnState ==
    /\ gf_pc = "return"
    /\ gf_field' = gf_final
    /\ gf_pc' = NextStage(gf_pc, gf_missing)
    /\ UNCHANGED <<gf_site_content, gf_grounded, gf_missing, gf_search_input, gf_final, gf_log, gf_merge_input>>

(***************************************************************************)
(* TavilyClient.search (api_clients/tavily_client.py and                   *)
(* core/api_clients/tavily_client.py): one provider call per query, run    *)
(* together by asyncio.gather; the falsy results are left out and the      *)
(* others become SearchResponse objects, in the order of the queries.      *)
(***************************************************************************)
Queries == {"q1", "q2"}
Batches == UNION {[1..n -> Queries] : n \in 0..MaxQueries}

\* A falsy provider result (None, {}).
Falsy == [empty |-> TRUE, query |-> "", answer |-> None, results |-> <<>>]

\* What the provider may return for query q: a falsy value, or a dict that
\* repeats the query and holds an answer (or none) and a list of results.
ProviderResults(q) ==
    {Falsy} \cup [empty : {FALSE}, query : {q}, answer : {None, "a"},
                  results : {<<>>} \cup {<<c>> : c \in Candidate}]

Pending == [st |-> "pending", res |-> Falsy]
Raised == [st |-> "raised", res |-> Falsy]
Returned(res) == [st |-> "returned", res |-> res]

\* SearchResponse(**res): the key 'results' is the alias of candidates
FromProvider(res) == [query |-> res.query, answer |-> res.answer, candidates |-> res.results]

\* A search that leaves out the responses without an answer.
search_skip_unanswered(provider_results) ==
    LET kept == SelectSeq(provider_results, LAMBDA res : ~res.empty /\ res.answer # None)
    IN  [i \in 1..Len(kept) |-> FromProvider(kept[i])]

\* A search that leaves out the responses without candidates.
search_drop_empty(provider_results) ==
    LET kept == SelectSeq(provider_results, LAMBDA res : ~res.empty /\ res.results # <<>>)
    IN  [i \in 1..Len(kept) |-> FromProvider(kept[i])]

\* return [SearchResponse(**res) for res in results if res]
search(provider_results) ==
    LET kept == SelectSeq(provider_results, LAMBDA res : ~res.empty)
    IN  [i \in 1..Len(kept) |-> FromProvider(kept[i])]

\* The results of gather, in the order of the queries.
Gathered == [i \in 1..Len(calls) |-> calls[i].res]

\* A search that waits for every call and returns what the successful ones gave.
AllSettled == \A i \in 1..Len(calls) : calls[i].st # "pending"

AllReturned == \A i \in 1..Len(calls) : calls[i].st = "returned"
SomeRaised == \E i \in 1..Len(calls) : calls[i].st = "raised"

\* asyncio.gather(*[self.async_client.search(query=query, ...) for query in queries])
SearchGather ==
    /\ search_pc = "idle"
    /\ node[Financial] = "search_web_and_answer" \/ gf_pc = "search"
    /\ calls' = [i \in 1..Len(batch) |-> Pending]
    /\ search_pc' = "gathering"
    /\ UNCHANGED <<batch, search_output>>

\* The provider call for query i returns.
AsyncClientSearchReturn(i) ==
    /\ calls[i].st = "pending"
    /\ \E res \in ProviderResults(batch[i]) : calls' = [calls EXCEPT ![i] = Returned(res)]
    /\ UNCHANGED <<batch, search_pc, search_output>>

\* The provider call for query i raises.
AsyncClientSearchRaise(i) ==
    /\ calls[i].st = "pending"
    /\ calls' = [calls EXCEPT ![i] = Raised]
    /\ UNCHANGED <<batch, search_pc, search_output>>

\* Every call has returned: search returns its list to _search_web_and_answer,
\* which goes on with it.
TopicSearchReturn(a) ==
    /\ search_pc = "gathering"
    /\ AllReturned
    /\ search_output' = search(Gathered)
    /\ search_pc' = "returned"
    /\ SearchAndAnswerWith(a, search_output')
    /\ UNCHANGED <<batch, calls>>

\* A call raised: gather raises, and so do search and _search_web_and_answer.
TopicSearchRaise(a) ==
    /\ search_pc = "gathering"
    /\ SomeRaised
    /\ node[a] = "search_web_and_answer"
    /\ search_pc' = "raised"
    /\ node' = [node EXCEPT ![a] = "raised"]
    /\ search_calls' = [search_calls EXCEPT ![a] = @ + 1]
    /\ llm_calls' = [llm_calls EXCEPT ![a].queries = @ + 1]
    /\ UNCHANGED <<batch, calls, search_output, messages, max_steps, results, llm_outputs>>

\* Every call has returned: search returns its list to run_agent_workflow.
GapSearchReturn ==
    /\ search_pc = "gathering"
    /\ AllReturned
    /\ gf_pc = "search"
    /\ search_output' = search(Gathered)
    /\ search_pc' = "returned"
    /\ gf_log' = Append(gf_log, "search")
    /\ gf_pc' = NextStage(gf_pc, gf_missing)
    /\ UNCHANGED <<batch, calls, gf_site_content, gf_grounded, gf_missing,
                   gf_search_input, gf_final, gf_field, gf_merge_input>>

\* A call raised: gather raises, and so do search and run_agent_workflow.
GapSearchRaise ==
    /\ search_pc = "gathering"
    /\ SomeRaised
    /\ gf_pc = "search"
    /\ search_pc' = "raised"
    /\ gf_log' = Append(gf_log, "search")
    /\ gf_pc' = "raised"
    /\ UNCHANGED <<batch, calls, search_output, gf_site_content, gf_grounded, gf_missing,
                   gf_search_input, gf_final, gf_field, gf_merge_input>>

(***************************************************************************)
(* ResearchManager (core/research_manager.py): the graph                   *)
(* BackgroundAgent -> FinancialHealthAgent -> MarketPositionAgent ->       *)
(* NewsAgent -> END over ResearchState (workflow/states.py). Every node is *)
(* the run method of a gap-fill agent, that is run_agent_workflow          *)
(* (agents/base_agent.py; agents/background_agent.py for the background    *)
(* agent). The runtime keeps one value per declared field of ResearchState *)
(* and takes from the object a node returns the declared fields only.      *)
(***************************************************************************)
BackgroundAgent == "BackgroundAgent"
FinancialHealthAgent == "FinancialHealthAgent"
MarketPositionAgent == "MarketPositionAgent"
NewsAgent == "NewsAgent"

\* A chain that starts the news agent right after the background agent.
MgrEdgesSwapped == {<<"START", BackgroundAgent>>,
                    <<BackgroundAgent, NewsAgent>>,
                    <<NewsAgent, MarketPositionAgent>>,
                    <<MarketPositionAgent, FinancialHealthAgent>>,
                    <<FinancialHealthAgent, "END">>}

\* set_entry_point and the add_edge calls of ResearchManager._init_graph
MgrEdges == {<<"START", BackgroundAgent>>,
             <<BackgroundAgent, FinancialHealthAgent>>,
             <<FinancialHealthAgent, MarketPositionAgent>>,
             <<MarketPositionAgent, NewsAgent>>,
             <<NewsAgent, "END">>}

MgrSuccessor(n) == CHOOSE m \in {BackgroundAgent, FinancialHealthAgent, MarketPositionAgent,
                                 NewsAgent, "END"} : <<n, m>> \in MgrEdges

\* get_state_field_name() of each agent
StateFieldName(n) ==
    CASE n = BackgroundAgent -> "background"
      [] n = FinancialHealthAgent -> "financial_health"
      [] n = MarketPositionAgent -> "market_position"
      [] n = NewsAgent -> "news"

\* The fields ResearchState declares.
Channels == {"company_name", "company_url", "background", "financial_health",
             "market_position", "recent_important_news", "final_report",
             "current_step", "errors"}

\* ResearchState(company_name=..., company_url=..., current_step="starting", errors=[])
ResearchInput ==
    [c \in Channels |->
        CASE c = "company_name" -> PyStr(<<"acme">>)
          [] c = "company_url" -> PyStr(<<"acme.example">>)
          [] c = "current_step" -> PyStr(<<"starting">>)
          [] c = "errors" -> PyList(<<>>)
          [] OTHER -> PyNone]

\* state_updates of run_agent_workflow; the background agent adds site_content
StateUpdates(n) ==
    [k \in {StateFieldName(n), "current_step"}
           \cup (IF n = BackgroundAgent THEN {"site_content"} ELSE {}) |->
        IF k = StateFieldName(n) THEN gf_field
        ELSE IF k = "current_step" THEN PyStr(<<n>>)
        ELSE PyList(gf_site_content)]

\* A new state built from the update alone: the other fields are not carried over.
model_construct(state, update) ==
    [k \in DOMAIN state \cup DOMAIN update |->
        IF k \in DOMAIN update THEN update[k] ELSE PyNone]

\* state.model_copy(update=state_updates): no validation, every key is set
model_copy(state, update) ==
    [k \in DOMAIN state \cup DOMAIN update |->
        IF k \in DOMAIN update THEN update[k] ELSE state[k]]

\* The runtime's merge of a returned object: one write per declared field.
ChannelUpdate(state, returned) ==
    [c \in Channels |-> IF c \in DOMAIN returned THEN returned[c] ELSE state[c]]

NoReturn == [k \in {} |-> PyNone]

\* The locals of run_agent_workflow when a node starts.
NodeEntry ==
    /\ gf_pc' = "get_site_content"
    /\ gf_site_content' = <<>>
    /\ gf_grounded' = PyNone
    /\ gf_missing' = None
    /\ gf_search_input' = 0
    /\ gf_final' = PyNone
    /\ gf_field' = PyNone
    /\ gf_merge_input' = <<>>
    /\ gf_log' = <<>>

\* ResearchManager.perfrom_research: self.graph.ainvoke(research_input)
PerfromResearch ==
    /\ mg_status = "idle"
    /\ mg_status' = "running"
    /\ mg_state' = ResearchInput
    /\ mg_node' = MgrSuccessor("START")
    /\ mg_started' = <<MgrSuccessor("START")>>
    /\ NodeEntry
    /\ UNCHANGED <<mg_last_return, crawl_calls>>

\* get_site_content: BackgroundAgent crawls the site; the other agents read
\* state.site_content, an AttributeError when the state has no such field
MgrGetSiteContent ==
    /\ mg_status = "running"
    /\ gf_pc = "get_site_content"
    /\ IF mg_node = BackgroundAgent
       THEN /\ crawl_calls' = crawl_calls + 1
            /\ \E pages \in SiteContents : gf_site_content' = pages
            /\ gf_log' = Append(gf_log, "get_site_content")
            /\ gf_pc' = NextStage(gf_pc, gf_missing)
       ELSE IF "site_content" \in DOMAIN mg_state
       THEN /\ gf_site_content' = mg_state["site_content"].v
            /\ gf_log' = Append(gf_log, "get_site_content")
            /\ gf_pc' = NextStage(gf_pc, gf_missing)
            /\ UNCHANGED crawl_calls
       ELSE /\ gf_pc' = "raised"
            /\ UNCHANGED <<gf_site_content, gf_log, crawl_calls>>
    /\ UNCHANGED <<gf_grounded, gf_missing, gf_search_input, gf_final, gf_field,
                   gf_merge_input, mg_status, mg_node, mg_state, mg_started, mg_last_return>>

\* The grounding call. BackgroundAgent passes company_name as well
\* (background_agent.py:47): a TypeError against the one-parameter
\* _summarize_to_grounded_info of agents/base_agent.py.
MgrSummarizeToGroundedInfo ==
    /\ mg_status = "running"
    /\ \/ SummarizeToGroundedInfo
       \/ /\ mg_node = BackgroundAgent
          /\ gf_pc = "summarize_to_grounded_info"
          /\ gf_pc' = "raised"
          /\ UNCHANGED <<gf_site_content, gf_grounded, gf_missing, gf_search_input,
                         gf_final, gf_field, gf_merge_input, gf_log>>
    /\ UNCHANGED mgrVars

\* The node returned: its object is merged and the next node is started.
MgrNodeReturn ==
    LET returned == model_copy(mg_state, StateUpdates(mg_node))
        next == MgrSuccessor(mg_node)
    IN  /\ mg_status = "running"
        /\ gf_pc = "done"
        /\ mg_last_return' = returned
        /\ mg_state' = ChannelUpdate(mg_state, returned)
        /\ NodeEntry
        /\ IF next = "END"
           THEN /\ mg_status' = "END"
                /\ UNCHANGED <<mg_node, mg_started>>
           ELSE /\ mg_node' = next
                /\ mg_started' = Append(mg_started, next)
                /\ UNCHANGED mg_status
        /\ UNCHANGED crawl_calls

\* The node raised: ainvoke raises and so does perfrom_research.
MgrNodeRaise ==
    /\ mg_status = "running"
    /\ gf_pc = "raised"
    /\ mg_status' = "failed"
    /\ UNCHANGED <<mg_node, mg_state, mg_started, mg_last_return, crawl_calls, gapVars>>

(***************************************************************************)
(* Specifications.                                                         *)
(***************************************************************************)
(***************************************************************************)
(* BackgroundAgent (core/agents/background.py): the graph                  *)
(* crawl_and_gather_background -> review -> search_and_answer -> summarize *)
(* run as the node background_research.  A turn's content records what     *)
(* its prompt was built from; a log entry is an external call, n being     *)
(* the pages returned (crawl), the messages sent (llm) or the queries of   *)
(* the batch (search).                                                     *)
(***************************************************************************)
NoBgOutput == [company_background |-> None, internal_messages |-> <<>>]

\* BackgroundAgent._crawl_and_gather_background
BgCrawlAndGather ==
    /\ bg_node = "crawl_and_gather_background"
    /\ \/ \* the provider's crawl call raised
          /\ bg_log' = Append(bg_log, [call |-> "crawl_error", n |-> 0])
          /\ bg_node' = "raised"
          /\ UNCHANGED bg_messages
       \/ \E site_contents \in SiteContents :
          /\ bg_log' = bg_log \o <<[call |-> "crawl", n |-> Len(site_contents)],
                                   [call |-> "llm", n |-> 1]>>
          /\ bg_messages' = Append(bg_messages,
                Message("Researcher", [kind |-> "site", n |-> Len(site_contents)]))
          /\ bg_node' = "review"
    /\ UNCHANGED bg_output

\* A review that sends the run to summarize when it lists no missing detail.
BgReviewRouting ==
    /\ bg_node = "review"
    /\ bg_log' = Append(bg_log, [call |-> "llm", n |-> 1 + Len(bg_messages)])
    /\ \E missing \in 0..1 :
          /\ bg_messages' = Append(bg_messages,
                Message("Reviewer", [kind |-> "review", n |-> missing]))
          /\ bg_node' = IF missing = 0 THEN "summarize" ELSE "search_and_answer"
    /\ UNCHANGED bg_output

\* BackgroundAgent._review; the Reviewer's turn lists the missing details it
\* found (n of them, none or some)
BgReview ==
    /\ bg_node = "review"
    /\ bg_log' = Append(bg_log, [call |-> "llm", n |-> 1 + Len(bg_messages)])
    /\ \E missing \in 0..1 :
          bg_messages' = Append(bg_messages,
              Message("Reviewer", [kind |-> "review", n |-> missing]))
    /\ bg_node' = "search_and_answer"
    /\ UNCHANGED bg_output

\* BackgroundAgent._search_and_answer
BgSearchAndAnswer ==
    /\ bg_node = "search_and_answer"
    /\ \E queries \in QueryCounts :
          \/ \* tavily_client.search raised
             /\ bg_log' = bg_log \o <<[call |-> "llm", n |-> 1 + Len(bg_messages)],
                                      [call |-> "search_error", n |-> queries]>>
             /\ bg_node' = "raised"
             /\ UNCHANGED bg_messages
          \/ \E search_response \in SearchOutputs :
             /\ bg_log' = bg_log \o <<[call |-> "llm", n |-> 1 + Len(bg_messages)],
                                      [call |-> "search", n |-> queries],
                                      [call |-> "llm", n |-> 1 + Len(bg_messages)]>>
             /\ bg_messages' = Append(bg_messages,
                   Message("Researcher",
                           [kind |-> "search", n |-> Len(JoinResponses(search_response))]))
             /\ bg_node' = "summarize"
    /\ UNCHANGED bg_output

\* BackgroundAgent._summarize, then the edge to END
BgSummarize ==
    /\ bg_node = "summarize"
    /\ bg_log' = Append(bg_log, [call |-> "llm", n |-> 1 + Len(bg_messages)])
    /\ bg_output' = [company_background |-> "background",
                     internal_messages |-> Append(bg_messages,
                         Message("Background Information Summarizer",
                                 [kind |-> "summary", n |-> Len(bg_messages)]))]
    /\ bg_node' = "END"
    /\ UNCHANGED bg_messages

(***************************************************************************)
(* The linear workflow (workflow/langgraph_workflow.py): the chain         *)
(* background_researcher -> financial_analyzer -> market_researcher ->     *)
(* news_researcher -> report_synthesizer -> END over one ResearchState     *)
(* dict, every research node making one request with the synchronous       *)
(* TavilyClient (api_clients/tavily_client.py).  A dict is a record with   *)
(* the set of its keys; a text built by concatenation is the sequence of   *)
(* its pieces.                                                             *)
(***************************************************************************)
\* An entry of the provider's result list.
Items == [title : {"t"}, content : {"", "c"}, url : {"u"}]

\* return {"error": ...}: no API key, or the request raised a RequestException
ErrorValue == [keys |-> {"error"}, answer |-> None, results |-> <<>>]

\* response.json(): what the provider answers to a request that succeeds
Bodies == [keys : SUBSET {"answer", "results"},
           answer : {None, "", "a"},
           results : {<<>>} \cup {<<i>> : i \in Items}]

\* TavilyClient.search(query): the error value when the request fails, the
\* decoded body when it succeeds; an exception that is not a
\* RequestException is not caught and leaves search.
SyncSearch ==
    {[st |-> "failed", data |-> ErrorValue], [st |-> "raised", data |-> ErrorValue]}
        \cup {[st |-> "ok", data |-> b] : b \in Bodies}

\* raw_content: the answer if the key is there, then the content of the
\* first three results if the key is there
raw_content(data) ==
    (IF "answer" \in data.keys THEN <<data.answer>> ELSE <<>>)
        \o (IF "results" \in data.keys
            THEN [i \in 1..(IF Len(data.results) < 3 THEN Len(data.results) ELSE 3) |->
                     data.results[i].content]
            ELSE <<>>)

\* raw_content += data['answer'] + "\n" raises TypeError on an answer of None
RaisesTypeError(data) == "answer" \in data.keys /\ data.answer = None

\* not raw_content.strip()
Blank(pieces) == \A i \in 1..Len(pieces) : pieces[i] = ""

\* A background summary made without the guard against blank content.
process_background_data_unguarded(data, llm_ok) ==
    IF RaisesTypeError(data) THEN [raised |-> TRUE, v |-> "", llm |-> 0]
    ELSE [raised |-> FALSE, llm |-> 1,
          v |-> IF llm_ok THEN "summary" ELSE "Background processing failed"]

\* process_background_data(data); llm_ok tells whether llm.invoke returns
process_background_data(data, llm_ok) ==
    IF RaisesTypeError(data) THEN [raised |-> TRUE, v |-> "", llm |-> 0]
    ELSE IF Blank(raw_content(data))
    THEN [raised |-> FALSE, llm |-> 0, v |-> "Background information not available"]
    ELSE [raised |-> FALSE, llm |-> 1,
          v |-> IF llm_ok THEN "summary" ELSE "Background processing failed"]

\* analyze_financial_data(data, background); data has no key 'sources'
analyze_financial_data(data, llm_ok) ==
    LET dict(summary) == [keys |-> {"summary", "sources"}, summary |-> summary]
    IN  IF RaisesTypeError(data) THEN [raised |-> TRUE, v |-> dict(""), llm |-> 0]
        ELSE IF Blank(raw_content(data))
        THEN [raised |-> FALSE, llm |-> 0, v |-> dict("Financial data not available")]
        ELSE [raised |-> FALSE, llm |-> 1,
              v |-> dict(IF llm_ok THEN "analysis" ELSE "Financial analysis failed")]

\* analyze_market_position(data, background)
analyze_market_position(data, llm_ok) ==
    IF RaisesTypeError(data) THEN [raised |-> TRUE, v |-> "", llm |-> 0]
    ELSE IF Blank(raw_content(data))
    THEN [raised |-> FALSE, llm |-> 0, v |-> "Market position data not available"]
    ELSE [raised |-> FALSE, llm |-> 1,
          v |-> IF llm_ok THEN "analysis" ELSE "Market position analysis failed"]

\* process_news_data(data, background): at most five items are read, and
\* every item yields a non-blank "Title: ..." text
process_news_data(data, llm_ok) ==
    IF "results" \notin data.keys \/ data.results = <<>>
    THEN [raised |-> FALSE, llm |-> 0, v |-> <<>>]
    ELSE [raised |-> FALSE, llm |-> 1,
          v |-> [i \in 1..Len(data.results) |->
                   [title |-> data.results[i].title, url |-> data.results[i].url,
                    summary |-> IF llm_ok THEN "AI Analysis" ELSE data.results[i].content]]]

\* generate_final_report, as the sequence of the texts put into the report
\* (the research date is left out)
generate_final_report(company_name, company_url, background, financial, market, news) ==
    <<company_name, company_url, background,
      IF "summary" \in financial.keys THEN financial.summary
      ELSE "Financial information not available",
      market>> \o [i \in 1..Len(news) |-> news[i].title]

\* initial_state of research_company
initial_state ==
    [company_name |-> "acme", company_url |-> "acme.example",
     company_background |-> "",
     financial_data |-> [keys |-> {}, summary |-> ""],
     market_position |-> "", recent_news |-> <<>>, final_report |-> <<>>,
     current_step |-> "starting", errors |-> <<>>]

\* The add_edge calls of create_research_workflow
LinearEdges == {<<"background_researcher", "financial_analyzer">>,
                <<"financial_analyzer", "market_researcher">>,
                <<"market_researcher", "news_researcher">>,
                <<"news_researcher", "report_synthesizer">>,
                <<"report_synthesizer", "END">>}

\* The node that runs after n returned, or the end of the run when n raised.
AfterNode(n, raised) ==
    IF raised THEN "raised" ELSE CHOOSE m \in {e[2] : e \in LinearEdges} : <<n, m>> \in LinearEdges

\* What a node run did: its search outcome, whether an exception was raised
\* in it, and its calls of the language model.
LogEntry(n, st, raised, llm) == [node |-> n, search |-> st, raised |-> raised, llm |-> llm]

\* A background node without the try: an exception leaves the node.
company_background_agent_uncaught ==
    /\ wf_node = "background_researcher"
    /\ \E out \in SyncSearch, llm_ok \in BOOLEAN :
          LET p == process_background_data(out.data, llm_ok)
              raised == out.st = "raised" \/ p.raised
          IN  /\ wf_state' = IF raised THEN wf_state
                             ELSE [wf_state EXCEPT !.company_background = p.v,
                                                   !.current_step = "background_complete"]
              /\ wf_log' = Append(wf_log, LogEntry(wf_node, out.st, raised, IF raised THEN 0 ELSE p.llm))
              /\ wf_node' = AfterNode(wf_node, raised)

\* company_background_agent
company_background_agent ==
    /\ wf_node = "background_researcher"
    /\ \E out \in SyncSearch, llm_ok \in BOOLEAN :
          LET p == process_background_data(out.data, llm_ok)
              raised == out.st = "raised" \/ p.raised
          IN  /\ wf_state' =
                    IF raised
                    THEN [wf_state EXCEPT !.errors = Append(@, "Background research error"),
                                          !.company_background = "Background research failed"]
                    ELSE [wf_state EXCEPT !.company_background = p.v,
                                          !.current_step = "background_complete"]
              /\ wf_log' = Append(wf_log, LogEntry(wf_node, out.st, raised, IF raised THEN 0 ELSE p.llm))
    /\ wf_node' = AfterNode(wf_node, FALSE)

\* financial_health_agent
financial_health_agent ==
    /\ wf_node = "financial_analyzer"
    /\ \E out \in SyncSearch, llm_ok \in BOOLEAN :
          LET p == analyze_financial_data(out.data, llm_ok)
              raised == out.st = "raised" \/ p.raised
          IN  /\ wf_state' = IF raised THEN wf_state
                             ELSE [wf_state EXCEPT !.financial_data = p.v]
              /\ wf_log' = Append(wf_log, LogEntry(wf_node, out.st, raised, IF raised THEN 0 ELSE p.llm))
              /\ wf_node' = AfterNode(wf_node, raised)

\* market_position_agent
market_position_agent ==
    /\ wf_node = "market_researcher"
    /\ \E out \in SyncSearch, llm_ok \in BOOLEAN :
          LET p == analyze_market_position(out.data, llm_ok)
              raised == out.st = "raised" \/ p.raised
          IN  /\ wf_state' = IF raised THEN wf_state
                             ELSE [wf_state EXCEPT !.market_position = p.v]
              /\ wf_log' = Append(wf_log, LogEntry(wf_node, out.st, raised, IF raised THEN 0 ELSE p.llm))
              /\ wf_node' = AfterNode(wf_node, raised)

\* news_researcher_agent
news_researcher_agent ==
    /\ wf_node = "news_researcher"
    /\ \E out \in SyncSearch, llm_ok \in BOOLEAN :
          LET p == process_news_data(out.data, llm_ok)
              raised == out.st = "raised" \/ p.raised
          IN  /\ wf_state' = IF raised THEN wf_state
                             ELSE [wf_state EXCEPT !.recent_news = p.v]
              /\ wf_log' = Append(wf_log, LogEntry(wf_node, out.st, raised, IF raised THEN 0 ELSE p.llm))
              /\ wf_node' = AfterNode(wf_node, raised)

\* report_synthesizer_agent
report_synthesizer_agent ==
    /\ wf_node = "report_synthesizer"
    /\ wf_state' = [wf_state EXCEPT !.final_report =
          generate_final_report(wf_state.company_name, wf_state.company_url,
                                wf_state.company_background, wf_state.financial_data,
                                wf_state.market_position, wf_state.recent_news)]
    /\ wf_log' = Append(wf_log, LogEntry(wf_node, "none", FALSE, 0))
    /\ wf_node' = AfterNode(wf_node, FALSE)

NoWf ==
    /\ wf_node = "idle"
    /\ wf_state = initial_state
    /\ wf_log = <<>>

(***************************************************************************)
(* One call of SearchResponse.to_string (core/api_clients/tavily_client.py)*)
(* on a response with up to MaxCandidates candidates.  A candidate is      *)
(* told from the others by its title.                                      *)
(***************************************************************************)
MaxCandidates == 4
MaxScore == 2
MaxTopK == 4

\* The candidate lists: the i-th candidate has title i and any score.
CandidateLists ==
    UNION {{[i \in 1..n |-> [title |-> ToString(i), content |-> "c", score |-> sc[i]]] :
               sc \in [1..n -> 0..MaxScore]} : n \in 0..MaxCandidates}

\* response.to_string(top_k_candidates)
ToStringCall ==
    /\ ts_pc = "call"
    /\ ts_lines' = to_string(ts_response, ts_top_k)
    /\ ts_pc' = "done"
    /\ UNCHANGED <<ts_response, ts_top_k>>

NoFmt ==
    /\ ts_pc = "idle"
    /\ ts_response = [query |-> "", answer |-> None, candidates |-> <<>>]
    /\ ts_top_k = DefaultTopK
    /\ ts_lines = <<>>

NoBg ==
    /\ bg_node = "idle"
    /\ bg_messages = <<>>
    /\ bg_log = <<>>
    /\ bg_output = NoBgOutput

NoOrch ==
    /\ ostatus = "none"
    /\ task = [n \in ParentNodes |-> "idle"]
    /\ writes = [n \in ParentNodes |-> NoPatch]
    /\ cstate = InitialState
    /\ summarize_runs = 0
    /\ summarize_input = None

NoTopic ==
    /\ node = [a \in Agents |-> "idle"]
    /\ messages = [a \in Agents |-> <<>>]
    /\ max_steps = [a \in Agents |-> 0]
    /\ llm_calls = [a \in Agents |-> NoCalls]
    /\ search_calls = [a \in Agents |-> 0]
    /\ results = [a \in Agents |-> <<>>]
    /\ llm_outputs = [interviewer |-> {}, expert |-> {}]

NoManager ==
    /\ mg_status = "none"
    /\ mg_node = "none"
    /\ mg_state = ResearchInput
    /\ mg_started = <<>>
    /\ mg_last_return = NoReturn
    /\ crawl_calls = 0

(***************************************************************************)
(* One CompanyResearchAgent object serving several perform_research calls. *)
(* A written value carries in "about" the companies named in the prompt    *)
(* it was produced from.                                                   *)
(***************************************************************************)
Requests == 1..MaxRequests
CompanyNames == <<"acme", "bolt", "coil", "dune">>

\* research_input = CompanyResearchInput(company_name=..., company_url=...)
ResearchInputOf(r) == [company_name |-> CompanyNames[r], company_url |-> CompanyNames[r]]

\* A perform_research call that has not reached ainvoke yet.
IdleRequest(r) ==
    [status |-> "idle",
     input |-> ResearchInputOf(r),
     task |-> [n \in ParentNodes |-> "idle"],
     writes |-> [n \in ParentNodes |-> NoPatch],
     cstate |-> InitialState,
     transcript |-> [a \in Agents |-> <<>>],
     output |-> <<>>]

NoConc ==
    /\ compiled_edges = Edges
    /\ requests = [r \in Requests |-> IdleRequest(r)]

NoPort ==
    /\ batch = <<>>
    /\ calls = <<>>
    /\ search_pc = "idle"
    /\ search_output = <<>>

NoGap ==
    /\ gf_pc = "none"
    /\ gf_site_content = <<>>
    /\ gf_grounded = PyNone
    /\ gf_missing = None
    /\ gf_search_input = 0
    /\ gf_final = PyNone
    /\ gf_field = PyNone
    /\ gf_merge_input = <<>>
    /\ gf_log = <<>>

\* One TopicResearchAgent run on its own, for every max_steps in the bound.
TopicInit ==
    /\ NoFmt
    /\ NoWf
    /\ node = [a \in Agents |-> IF a = Financial THEN "START" ELSE "idle"]
    /\ messages = [a \in Agents |-> <<>>]
    /\ \E m \in 0..MaxStepsBound : max_steps = [a \in Agents |-> m]
    /\ llm_calls = [a \in Agents |-> NoCalls]
    /\ search_calls = [a \in Agents |-> 0]
    /\ results = [a \in Agents |-> <<>>]
    /\ llm_outputs = [interviewer |-> InterviewerTexts, expert |-> ExpertTexts]
    /\ NoOrch
    /\ NoGap
    /\ NoPort
    /\ NoManager
    /\ NoConc
    /\ NoBg

TopicNext ==
    \/ TopicStart(Financial) /\ UNCHANGED <<orchVars, gapVars, portVars, mgrVars, concVars, bgVars, wfVars, fmtVars>>
    \/ AskQuestion(Financial) /\ UNCHANGED <<orchVars, gapVars, portVars, mgrVars, concVars, bgVars, wfVars, fmtVars>>
    \/ Route(Financial) /\ UNCHANGED <<orchVars, gapVars, portVars, mgrVars, concVars, bgVars, wfVars, fmtVars>>
    \/ SearchWebAndAnswer(Financial) /\ UNCHANGED <<orchVars, gapVars, portVars, mgrVars, concVars, bgVars, wfVars, fmtVars>>
    \/ SummarizeResults(Financial) /\ UNCHANGED <<orchVars, gapVars, portVars, mgrVars, concVars, bgVars, wfVars, fmtVars>>

TopicSpec == TopicInit /\ [][TopicNext]_vars

\* The same run under the scheduling of the graph runtime: a node that is
\* triggered is eventually run.
TopicFairSpec == TopicSpec /\ WF_vars(TopicNext)

\* One perform_research request; config.max_searches_per_agent is any value
\* in the bound.
OrchInit ==
    /\ NoFmt
    /\ NoWf
    /\ ostatus = "idle"
    /\ task = [n \in ParentNodes |-> "idle"]
    /\ writes = [n \in ParentNodes |-> NoPatch]
    /\ cstate = InitialState
    /\ summarize_runs = 0
    /\ summarize_input = None
    /\ node = [a \in Agents |-> "idle"]
    /\ messages = [a \in Agents |-> <<>>]
    /\ \E m \in 0..MaxStepsBound : max_steps = [a \in Agents |-> m]
    /\ llm_calls = [a \in Agents |-> NoCalls]
    /\ search_calls = [a \in Agents |-> 0]
    /\ results = [a \in Agents |-> <<>>]
    /\ llm_outputs = [interviewer |-> {ThankYou, Question}, expert |-> {Answer}]
    /\ bg_node = "crawl_and_gather_background"
    /\ bg_messages = <<>>
    /\ bg_log = <<>>
    /\ bg_output = NoBgOutput
    /\ NoGap
    /\ NoPort
    /\ NoManager
    /\ NoConc

OrchNext ==
    \/ PerformResearch /\ UNCHANGED <<gapVars, portVars, mgrVars, concVars, bgVars, wfVars, fmtVars>>
    \/ ostatus = "running" /\ task[Background] = "running" /\ BgCrawlAndGather /\ UNCHANGED <<topicVars, orchVars, gapVars, portVars, mgrVars, concVars, wfVars, fmtVars>>
    \/ ostatus = "running" /\ task[Background] = "running" /\ BgReview /\ UNCHANGED <<topicVars, orchVars, gapVars, portVars, mgrVars, concVars, wfVars, fmtVars>>
    \/ ostatus = "running" /\ task[Background] = "running" /\ BgSearchAndAnswer /\ UNCHANGED <<topicVars, orchVars, gapVars, portVars, mgrVars, concVars, wfVars, fmtVars>>
    \/ ostatus = "running" /\ task[Background] = "running" /\ BgSummarize /\ UNCHANGED <<topicVars, orchVars, gapVars, portVars, mgrVars, concVars, wfVars, fmtVars>>
    \/ BackgroundResearch /\ UNCHANGED <<gapVars, portVars, mgrVars, concVars, wfVars, fmtVars>>
    \/ BackgroundRaise /\ UNCHANGED <<gapVars, portVars, mgrVars, concVars, wfVars, fmtVars>>
    \/ \E a \in Agents : BranchStep(a) /\ UNCHANGED <<gapVars, portVars, mgrVars, concVars, bgVars, wfVars, fmtVars>>
    \/ \E a \in Agents : BranchReturn(a) /\ UNCHANGED <<gapVars, portVars, mgrVars, concVars, bgVars, wfVars, fmtVars>>
    \/ \E a \in Agents : BranchRaise(a) /\ UNCHANGED <<gapVars, portVars, mgrVars, concVars, bgVars, wfVars, fmtVars>>
    \/ OrchSummarizeResults /\ UNCHANGED <<gapVars, portVars, mgrVars, concVars, bgVars, wfVars, fmtVars>>
    \/ Superstep /\ UNCHANGED <<gapVars, portVars, mgrVars, concVars, bgVars, wfVars, fmtVars>>
    \/ OrchAbort /\ UNCHANGED <<gapVars, portVars, mgrVars, concVars, bgVars, wfVars, fmtVars>>

OrchSpec == OrchInit /\ [][OrchNext]_vars


\* One BaseAgent.run_agent_workflow call.
GapInit ==
    /\ NoFmt
    /\ NoWf
    /\ gf_pc = "get_site_content"
    /\ gf_site_content = <<>>
    /\ gf_grounded = PyNone
    /\ gf_missing = None
    /\ gf_search_input = 0
    /\ gf_final = PyNone
    /\ gf_field = PyNone
    /\ gf_merge_input = <<>>
    /\ gf_log = <<>>
    /\ NoOrch
    /\ NoTopic
    /\ NoPort
    /\ NoManager
    /\ NoConc
    /\ NoBg

GapNext ==
    \/ GetSiteContent /\ UNCHANGED <<topicVars, orchVars, portVars, mgrVars, concVars, bgVars, wfVars, fmtVars>>
    \/ SummarizeToGroundedInfo /\ UNCHANGED <<topicVars, orchVars, portVars, mgrVars, concVars, bgVars, wfVars, fmtVars>>
    \/ CheckMissingFields /\ UNCHANGED <<topicVars, orchVars, portVars, mgrVars, concVars, bgVars, wfVars, fmtVars>>
    \/ GenerateQueries /\ UNCHANGED <<topicVars, orchVars, portVars, mgrVars, concVars, bgVars, wfVars, fmtVars>>
    \/ Search /\ UNCHANGED <<topicVars, orchVars, portVars, mgrVars, concVars, bgVars, wfVars, fmtVars>>
    \/ ProcessData /\ UNCHANGED <<topicVars, orchVars, portVars, mgrVars, concVars, bgVars, wfVars, fmtVars>>
    \/ ReturnState /\ UNCHANGED <<topicVars, orchVars, portVars, mgrVars, concVars, bgVars, wfVars, fmtVars>>

GapSpec == GapInit /\ [][GapNext]_vars

(***************************************************************************)
(* agents/BaseAgent.py: the earlier run_agent_workflow.  Its statements    *)
(* are those of agents/base_agent.py except that grounding is followed     *)
(* directly by query generation (there is no _check_missing_fields);       *)
(* BackgroundAgent.run of agents/BackgroundAgent.py has the same order.    *)
(***************************************************************************)
\* grounded_info = self._summarize_to_grounded_info(site_content), then
\* search_input = self._generate_queries_for_missing_info(...)
LegacySummarizeToGroundedInfo ==
    /\ gf_pc = "summarize_to_grounded_info"
    /\ IF NoContent(gf_site_content)
       THEN /\ gf_pc' = "raised"
            /\ UNCHANGED <<gf_grounded, gf_log>>
       ELSE /\ \E response \in GroundedRecords : gf_grounded' = response
            /\ gf_log' = Append(gf_log, "llm_ground")
            /\ gf_pc' = "generate_queries"
    /\ UNCHANGED <<gf_site_content, gf_missing, gf_search_input, gf_final, gf_field, gf_merge_input>>

LegacyNext ==
    \/ GetSiteContent /\ UNCHANGED <<topicVars, orchVars, portVars, mgrVars, concVars, bgVars, wfVars, fmtVars>>
    \/ LegacySummarizeToGroundedInfo /\ UNCHANGED <<topicVars, orchVars, portVars, mgrVars, concVars, bgVars, wfVars, fmtVars>>
    \/ GenerateQueries /\ UNCHANGED <<topicVars, orchVars, portVars, mgrVars, concVars, bgVars, wfVars, fmtVars>>
    \/ Search /\ UNCHANGED <<topicVars, orchVars, portVars, mgrVars, concVars, bgVars, wfVars, fmtVars>>
    \/ ProcessData /\ UNCHANGED <<topicVars, orchVars, portVars, mgrVars, concVars, bgVars, wfVars, fmtVars>>
    \/ ReturnState /\ UNCHANGED <<topicVars, orchVars, portVars, mgrVars, concVars, bgVars, wfVars, fmtVars>>

LegacySpec == GapInit /\ [][LegacyNext]_vars

\* One run of the BackgroundAgent graph: the compiled graph invoked with a
\* BackgroundInput, START -> crawl_and_gather_background.
BgInit ==
    /\ NoFmt
    /\ NoWf
    /\ bg_node = "crawl_and_gather_background"
    /\ bg_messages = <<>>
    /\ bg_log = <<>>
    /\ bg_output = NoBgOutput
    /\ NoTopic
    /\ NoOrch
    /\ NoGap
    /\ NoPort
    /\ NoManager
    /\ NoConc

BgNext ==
    \/ BgCrawlAndGather /\ UNCHANGED <<topicVars, orchVars, gapVars, portVars, mgrVars, concVars, wfVars, fmtVars>>
    \/ BgReview /\ UNCHANGED <<topicVars, orchVars, gapVars, portVars, mgrVars, concVars, wfVars, fmtVars>>
    \/ BgSearchAndAnswer /\ UNCHANGED <<topicVars, orchVars, gapVars, portVars, mgrVars, concVars, wfVars, fmtVars>>
    \/ BgSummarize /\ UNCHANGED <<topicVars, orchVars, gapVars, portVars, mgrVars, concVars, wfVars, fmtVars>>

BgSpec == BgInit /\ [][BgNext]_vars

\* research_company: workflow.invoke(initial_state), entry point
\* background_researcher
WfInit ==
    /\ NoFmt
    /\ wf_node = "background_researcher"
    /\ wf_state = initial_state
    /\ wf_log = <<>>
    /\ NoTopic
    /\ NoOrch
    /\ NoGap
    /\ NoPort
    /\ NoManager
    /\ NoConc
    /\ NoBg

WfNext ==
    \/ company_background_agent /\ UNCHANGED <<topicVars, orchVars, gapVars, portVars, mgrVars, concVars, bgVars, fmtVars>>
    \/ financial_health_agent /\ UNCHANGED <<topicVars, orchVars, gapVars, portVars, mgrVars, concVars, bgVars, fmtVars>>
    \/ market_position_agent /\ UNCHANGED <<topicVars, orchVars, gapVars, portVars, mgrVars, concVars, bgVars, fmtVars>>
    \/ news_researcher_agent /\ UNCHANGED <<topicVars, orchVars, gapVars, portVars, mgrVars, concVars, bgVars, fmtVars>>
    \/ report_synthesizer_agent /\ UNCHANGED <<topicVars, orchVars, gapVars, portVars, mgrVars, concVars, bgVars, fmtVars>>

WfSpec == WfInit /\ [][WfNext]_vars

\* A SearchResponse and a top_k_candidates, before the call of to_string.
ToStringInit ==
    /\ ts_pc = "call"
    /\ \E q \in {"", "q"}, cands \in CandidateLists :
          ts_response = [query |-> q, answer |-> "a", candidates |-> cands]
    /\ ts_top_k \in 0..MaxTopK
    /\ ts_lines = <<>>
    /\ NoTopic
    /\ NoOrch
    /\ NoGap
    /\ NoPort
    /\ NoManager
    /\ NoConc
    /\ NoBg
    /\ NoWf

ToStringNext ==
    ToStringCall /\ UNCHANGED <<topicVars, orchVars, gapVars, portVars, mgrVars, concVars, bgVars, wfVars>>

ToStringSpec == ToStringInit /\ [][ToStringNext]_vars




\* One batch search and the stage that made it: the search_web_and_answer
\* node of a topic agent after the Interviewer's first question, or
\* run_agent_workflow at its search call with a grounded record that has a gap.
PortInit ==
    /\ NoFmt
    /\ NoWf
    /\ NoManager
    /\ NoConc
    /\ NoBg
    /\ \E b \in Batches : batch = b
    /\ calls = <<>>
    /\ search_pc = "idle"
    /\ search_output = <<>>
    /\ NoOrch
    /\ \/ /\ node = [a \in Agents |-> IF a = Financial THEN "search_web_and_answer" ELSE "idle"]
          /\ messages = [a \in Agents |->
                            IF a = Financial THEN <<Message("Interviewer", Question)>> ELSE <<>>]
          /\ max_steps = [a \in Agents |-> MaxStepsBound]
          /\ llm_calls = [a \in Agents |-> IF a = Financial THEN [NoCalls EXCEPT !.ask = 1]
                                           ELSE NoCalls]
          /\ search_calls = [a \in Agents |-> 0]
          /\ results = [a \in Agents |-> <<>>]
          /\ llm_outputs = [interviewer |-> {Question}, expert |-> {Answer}]
          /\ NoGap
       \/ /\ gf_pc = "search"
          /\ gf_site_content = <<Page>>
          /\ gf_grounded = PyModel(<<PyStr(<<"a">>), PyNone>>)
          /\ gf_missing = check_missing_fields(gf_grounded)
          /\ gf_search_input = Len(batch)
          /\ gf_final = PyNone
          /\ gf_field = PyNone
          /\ gf_merge_input = <<>>
          /\ gf_log = <<"get_site_content", "llm_ground", "check_missing_fields", "llm_queries">>
          /\ NoTopic

PortNext ==
    \/ SearchGather /\ UNCHANGED <<topicVars, orchVars, gapVars, mgrVars, concVars, bgVars, wfVars, fmtVars>>
    \/ \E i \in 1..Len(calls) : AsyncClientSearchReturn(i) /\ UNCHANGED <<topicVars, orchVars, gapVars, mgrVars, concVars, bgVars, wfVars, fmtVars>>
    \/ \E i \in 1..Len(calls) : AsyncClientSearchRaise(i) /\ UNCHANGED <<topicVars, orchVars, gapVars, mgrVars, concVars, bgVars, wfVars, fmtVars>>
    \/ TopicSearchReturn(Financial) /\ UNCHANGED <<orchVars, gapVars, mgrVars, concVars, bgVars, wfVars, fmtVars>>
    \/ TopicSearchRaise(Financial) /\ UNCHANGED <<orchVars, gapVars, mgrVars, concVars, bgVars, wfVars, fmtVars>>
    \/ GapSearchReturn /\ UNCHANGED <<topicVars, orchVars, mgrVars, concVars, bgVars, wfVars, fmtVars>>
    \/ GapSearchRaise /\ UNCHANGED <<topicVars, orchVars, mgrVars, concVars, bgVars, wfVars, fmtVars>>
    \/ ProcessData /\ UNCHANGED <<topicVars, orchVars, portVars, mgrVars, concVars, bgVars, wfVars, fmtVars>>
    \/ ReturnState /\ UNCHANGED <<topicVars, orchVars, portVars, mgrVars, concVars, bgVars, wfVars, fmtVars>>

PortSpec == PortInit /\ [][PortNext]_vars

\* One perfrom_research request.
ManagerInit ==
    /\ NoFmt
    /\ NoWf
    /\ mg_status = "idle"
    /\ mg_node = "none"
    /\ mg_state = ResearchInput
    /\ mg_started = <<>>
    /\ mg_last_return = NoReturn
    /\ crawl_calls = 0
    /\ NoGap
    /\ NoOrch
    /\ NoTopic
    /\ NoPort
    /\ NoConc
    /\ NoBg

ManagerNext ==
    \/ PerfromResearch /\ UNCHANGED <<topicVars, orchVars, portVars, concVars, bgVars, wfVars, fmtVars>>
    \/ MgrGetSiteContent /\ UNCHANGED <<topicVars, orchVars, portVars, concVars, bgVars, wfVars, fmtVars>>
    \/ MgrSummarizeToGroundedInfo /\ UNCHANGED <<topicVars, orchVars, portVars, concVars, bgVars, wfVars, fmtVars>>
    \/ mg_status = "running" /\ CheckMissingFields /\ UNCHANGED <<topicVars, orchVars, portVars, mgrVars, concVars, bgVars, wfVars, fmtVars>>
    \/ mg_status = "running" /\ GenerateQueries /\ UNCHANGED <<topicVars, orchVars, portVars, mgrVars, concVars, bgVars, wfVars, fmtVars>>
    \/ mg_status = "running" /\ Search /\ UNCHANGED <<topicVars, orchVars, portVars, mgrVars, concVars, bgVars, wfVars, fmtVars>>
    \/ mg_status = "running" /\ ProcessData /\ UNCHANGED <<topicVars, orchVars, portVars, mgrVars, concVars, bgVars, wfVars, fmtVars>>
    \/ mg_status = "running" /\ ReturnState /\ UNCHANGED <<topicVars, orchVars, portVars, mgrVars, concVars, bgVars, wfVars, fmtVars>>
    \/ MgrNodeReturn /\ UNCHANGED <<topicVars, orchVars, portVars, concVars, bgVars, wfVars, fmtVars>>
    \/ MgrNodeRaise /\ UNCHANGED <<topicVars, orchVars, portVars, concVars, bgVars, wfVars, fmtVars>>

ManagerSpec == ManagerInit /\ [][ManagerNext]_vars

(***************************************************************************)
(* CompanyResearchAgent: concurrent perform_research calls on the one      *)
(* compiled graph.  Each call is its own ainvoke: supersteps, patches and  *)
(* the topic transcripts are kept per call; the object's attributes        *)
(* (compiled_graph, the agents, llm, tavily_client) are assigned in        *)
(* __init__ only.                                                          *)
(***************************************************************************)

\* Every invocation reads one state object shared by all calls.
SharedState(rq, r) == rq[1]

\* The state a node of call r is handed: the one created by r's own ainvoke.
InvocationState(rq, r) == rq[r]

\* The companies a prompt built from this state names:
\* state["company_name"], state["company_background"], state["results"]
StateAbout(view) ==
    {view.input.company_name}
    \cup (IF view.cstate.company_background = None THEN {} ELSE {view.cstate.company_background})
    \cup UNION {view.cstate.results[i].about : i \in 1..Len(view.cstate.results)}

\* ... followed by state["messages"] of the topic sub-graph a
TranscriptAbout(view, a) ==
    StateAbout(view) \cup UNION {view.transcript[a][i].about : i \in 1..Len(view.transcript[a])}

CompiledSuccessors(finished) ==
    {m \in ParentNodes \cup {"END"} : \E n \in finished : <<n, m>> \in compiled_edges}

\* perform_research: research_input is built, compiled_graph.ainvoke(research_input)
ConcPerformResearch(r) ==
    /\ requests[r].status = "idle"
    /\ requests' = [requests EXCEPT
          ![r].status = "running",
          ![r].cstate = InitialState,
          ![r].task = [n \in ParentNodes |->
                          IF <<"START", n>> \in compiled_edges THEN "running" ELSE "idle"]]
    /\ UNCHANGED compiled_edges

\* background_research of call r
ConcBackgroundResearch(r) ==
    LET view == InvocationState(requests, r)
    IN  /\ requests[r].status = "running"
        /\ requests[r].task[Background] = "running"
        /\ requests' = [requests EXCEPT
              ![r].task[Background] = "finished",
              ![r].writes[Background] =
                  [NoPatch EXCEPT !.company_background = view.input.company_name]]
        /\ UNCHANGED compiled_edges

\* A turn of the topic sub-graph a of call r: the Interviewer's question,
\* then the Expert's answer (add_messages appends it to r's transcript).
ConcTurn(r, a) ==
    LET view == InvocationState(requests, r)
        own == requests[r].transcript[a]
        turn == [name |-> IF Len(own) = 0 THEN "Interviewer" ELSE "Expert",
                 about |-> TranscriptAbout(view, a)]
    IN  /\ requests[r].status = "running"
        /\ requests[r].task[a] = "running"
        /\ Len(own) < 2
        /\ requests' = [requests EXCEPT ![r].transcript[a] = Append(own, turn)]
        /\ UNCHANGED compiled_edges

\* The topic sub-graph a of call r summarized its interview and reached END.
ConcBranchReturn(r, a) ==
    LET view == InvocationState(requests, r)
        summary == [name |-> a, about |-> TranscriptAbout(view, a)]
    IN  /\ requests[r].status = "running"
        /\ requests[r].task[a] = "running"
        /\ Len(requests[r].transcript[a]) = 2
        /\ requests' = [requests EXCEPT
              ![r].task[a] = "finished",
              ![r].writes[a] = [NoPatch EXCEPT !.results = <<summary>>]]
        /\ UNCHANGED compiled_edges

\* _summarize_results of call r; its response is what ainvoke returns.
ConcSummarizeResults(r) ==
    LET view == InvocationState(requests, r)
    IN  /\ requests[r].status = "running"
        /\ requests[r].task[Summarize] = "running"
        /\ requests' = [requests EXCEPT
              ![r].task[Summarize] = "finished",
              ![r].output = <<[about |-> StateAbout(view)]>>]
        /\ UNCHANGED compiled_edges

\* End of a superstep of call r.
ConcSuperstep(r) ==
    LET current == {n \in ParentNodes : requests[r].task[n] \in {"running", "finished"}}
        next == CompiledSuccessors(current)
    IN  /\ requests[r].status = "running"
        /\ current # {}
        /\ \A n \in current : requests[r].task[n] = "finished"
        /\ requests' = [requests EXCEPT
              ![r].cstate = ApplyPatches(requests[r].cstate, requests[r].writes, NodeOrder),
              ![r].writes = [n \in ParentNodes |-> NoPatch],
              ![r].task = [n \in ParentNodes |->
                              IF n \in next THEN "running"
                              ELSE IF n \in current THEN "done" ELSE requests[r].task[n]],
              ![r].status = IF next \cap ParentNodes = {} THEN "END" ELSE "running"]
        /\ UNCHANGED compiled_edges

\* A node of call r raised: r's ainvoke raises, its running nodes are cancelled.
ConcNodeRaise(r, n) ==
    /\ requests[r].status = "running"
    /\ requests[r].task[n] = "running"
    /\ requests' = [requests EXCEPT
          ![r].status = "failed",
          ![r].task = [m \in ParentNodes |->
                          IF m = n THEN "raised"
                          ELSE IF requests[r].task[m] = "running" THEN "cancelled"
                          ELSE requests[r].task[m]]]
    /\ UNCHANGED compiled_edges

\* After CompanyResearchAgent.__init__: the graph is compiled, no call made yet.
ConcInit ==
    /\ NoFmt
    /\ NoWf
    /\ compiled_edges = Edges
    /\ requests = [r \in Requests |-> IdleRequest(r)]
    /\ NoTopic
    /\ NoOrch
    /\ NoGap
    /\ NoPort
    /\ NoManager
    /\ NoBg

ConcNext ==
    \/ \E r \in Requests : ConcPerformResearch(r) /\ UNCHANGED <<topicVars, orchVars, gapVars, portVars, mgrVars, bgVars, wfVars, fmtVars>>
    \/ \E r \in Requests : ConcBackgroundResearch(r) /\ UNCHANGED <<topicVars, orchVars, gapVars, portVars, mgrVars, bgVars, wfVars, fmtVars>>
    \/ \E r \in Requests, a \in Agents : ConcTurn(r, a) /\ UNCHANGED <<topicVars, orchVars, gapVars, portVars, mgrVars, bgVars, wfVars, fmtVars>>
    \/ \E r \in Requests, a \in Agents : ConcBranchReturn(r, a) /\ UNCHANGED <<topicVars, orchVars, gapVars, portVars, mgrVars, bgVars, wfVars, fmtVars>>
    \/ \E r \in Requests : ConcSummarizeResults(r) /\ UNCHANGED <<topicVars, orchVars, gapVars, portVars, mgrVars, bgVars, wfVars, fmtVars>>
    \/ \E r \in Requests : ConcSuperstep(r) /\ UNCHANGED <<topicVars, orchVars, gapVars, portVars, mgrVars, bgVars, wfVars, fmtVars>>
    \/ \E r \in Requests, n \in ParentNodes : ConcNodeRaise(r, n) /\ UNCHANGED <<topicVars, orchVars, gapVars, portVars, mgrVars, bgVars, wfVars, fmtVars>>

ConcSpec == ConcInit /\ [][ConcNext]_vars

(***************************************************************************)
(* Properties of the TopicResearchAgent loop.                              *)
(***************************************************************************)
\* The text holds the letters t-h-a-n-k in a row, each in either case.
MentionsThank(text) ==
    \E i \in 1..(Len(text) - 4) :
        /\ text[i] \in {"t", "T"}
        /\ text[i + 1] \in {"h", "H"}
        /\ text[i + 2] \in {"a", "A"}
        /\ text[i + 3] \in {"n", "N"}
        /\ text[i + 4] \in {"k", "K"}

LastTurn(a) == messages[a][Len(messages[a])]

\* The Interviewer has just closed the interview.
Closed(a) ==
    /\ Len(messages[a]) > 0
    /\ LastTurn(a).name = "Interviewer"
    /\ MentionsThank(LastTurn(a).content)

C2_StepBudget ==
    \A a \in Agents :
        /\ ExpertCount(messages[a]) <= max_steps[a]
        /\ search_calls[a] <= max_steps[a]

\* C2 witness: a run that never heard the closing phrase used its whole budget.
C2_Witness ==
    /\ max_steps[Financial] >= 2
    /\ ExpertCount(messages[Financial]) = max_steps[Financial]
    /\ search_calls[Financial] = max_steps[Financial]
    /\ \A i \in 1..Len(messages[Financial]) : ~MentionsThank(messages[Financial][i].content)
    /\ node[Financial] = "END"

\* C3: once the Interviewer's turn mentions 'thank', the route goes to
\* summarize_results and nothing else happens to the loop: no query
\* generation, no search, no answer call, no further turn.
C3_ClosingPhraseEnds ==
    [][\A a \in Agents :
        Closed(a) =>
            /\ messages'[a] = messages[a]
            /\ search_calls'[a] = search_calls[a]
            /\ llm_calls'[a].queries = llm_calls[a].queries
            /\ llm_calls'[a].answer = llm_calls[a].answer
            /\ llm_calls'[a].ask = llm_calls[a].ask
            /\ (node[a] = "route" /\ node'[a] # "route") => node'[a] = "summarize_results"
            /\ node'[a] \in {"route", "summarize_results", "END"}]_vars

\* C3 witness: the phrase ended a run after one Expert turn, below the budget.
C3_Witness ==
    /\ node[Financial] = "END"
    /\ Closed(Financial)
    /\ ExpertCount(messages[Financial]) = 1
    /\ max_steps[Financial] > 1

HasSummaryOf(state, a) == \E i \in 1..Len(state.results) : state.results[i].summary_of = a

\* C5: summarize_results runs at most once, only after both branches have
\* returned and their patches are merged; the state it reads holds
\* company_background and the result of either branch; and a request that
\* reaches END has run it exactly once.
C5_FanIn ==
    /\ summarize_runs <= 1
    /\ (task[Summarize] # "idle" \/ summarize_runs > 0) =>
          \A a \in Agents : task[a] = "done" /\ node[a] = "END"
    /\ summarize_runs > 0 =>
          /\ summarize_input.company_background # None
          /\ \A a \in Agents : HasSummaryOf(summarize_input, a)
    /\ ostatus = "END" => summarize_runs = 1

\* C5 witness: the fan-in ran after branches of different lengths.
C5_Witness ==
    /\ summarize_runs = 1
    /\ llm_calls[Financial].ask > llm_calls[Market].ask + 1
    /\ ostatus = "END"

(***************************************************************************)
(* Properties of the gap-fill pipeline.                                    *)
(***************************************************************************)
\* The value itself and every value nested in it, at any depth.
RECURSIVE Parts(_)
Parts(x) ==
    {x} \cup (IF x.t \in {"list", "model", "dict"}
              THEN UNION {Parts(x.v[i]) : i \in 1..Len(x.v)}
              ELSE {})

\* null, an empty or whitespace-only string, or an empty list
MissingLeaf(x) ==
    \/ x.t = "none"
    \/ x.t = "str" /\ \A i \in 1..Len(x.v) : x.v[i] \in Whitespace
    \/ x.t = "list" /\ x.v = <<>>

HasGap(record) == \E x \in Parts(record) : MissingLeaf(x)

Occurrences(log, entry) == Cardinality({i \in 1..Len(log) : log[i] = entry})

\* Gap detection has run on gf_grounded.
Detected == gf_pc \in {"generate_queries", "search", "process_data", "return", "done"}
            \/ (gf_pc = "raised" /\ gf_log # <<"get_site_content">>)

\* C6: gap detection returns True for every record that holds, at any depth,
\* a null, an empty or whitespace-only string or an empty list, also inside
\* a nested record and inside an item of a list.
C6_GapReported ==
    (Detected /\ HasGap(gf_grounded)) => gf_missing = PyTrue

\* C6 witness: the only gap is a blank string in a record inside a list.
C6_Witness ==
    /\ Detected
    /\ gf_grounded = PyModel(<<PyList(<<PyModel(<<PyStr(<<" ", "\t">>), PyStr(<<"a">>)>>)>>)>>)
    /\ gf_missing = PyTrue

\* C7: gap detection returns False for every record whose leaves are all
\* populated.
C7_NoGapReturnsFalse ==
    (Detected /\ ~HasGap(gf_grounded)) => gf_missing = PyFalse

\* C8: a run whose grounded record has no gap makes no query-generation
\* call, no search and no merge call, and writes the grounded record
\* itself to the agent's field.
C8_NoGapNoSearch ==
    (gf_log # <<>> /\ gf_grounded # PyNone /\ ~HasGap(gf_grounded)) =>
        /\ Occurrences(gf_log, "search") = 0
        /\ Occurrences(gf_log, "llm_queries") = 0
        /\ Occurrences(gf_log, "llm_merge") = 0
        /\ gf_pc \in {"check_missing_fields", "return", "done"}
        /\ gf_pc = "done" => gf_field = gf_grounded

\* C8 witness: a finished run on a fully populated nested record.
C8_Witness ==
    /\ gf_pc = "done"
    /\ gf_grounded = PyModel(<<PyModel(<<PyNum(0), PyStr(<<"a">>)>>), PyStr(<<"a">>)>>)
    /\ gf_field = gf_grounded
    /\ gf_log = <<"get_site_content", "llm_ground", "check_missing_fields">>

FullOrder == <<"get_site_content", "llm_ground", "check_missing_fields",
               "llm_queries", "search", "llm_merge">>
ShortOrder == SubSeq(FullOrder, 1, 3)
IsPrefix(p, q) == Len(p) <= Len(q) /\ SubSeq(q, 1, Len(p)) = p

\* C9: the stages of a run happen in the order acquisition, grounding, gap
\* detection, and then query generation, search, merge exactly when a gap
\* was detected; each at most once; a run that returns has made all the
\* stages of its order.
C9_StageOrder ==
    /\ IsPrefix(gf_log, FullOrder)
    /\ (Detected /\ ~Truthy(gf_missing)) => IsPrefix(gf_log, ShortOrder)
    /\ gf_pc \in {"return", "done"} =>
          gf_log = IF Truthy(gf_missing) THEN FullOrder ELSE ShortOrder

\* C9 witness: a run that detected a gap and went through all six stages.
C9_Witness ==
    /\ gf_pc = "done"
    /\ Truthy(gf_missing)
    /\ gf_log = FullOrder

\* C10: with an empty page list the grounding stage raises before any
\* language-model call; the run ends there, without query generation,
\* search or merge, and the agent's field is never written.
C10_NoContentAborts ==
    (gf_pc # "get_site_content" /\ gf_site_content = <<>>) =>
        /\ gf_pc \in {"summarize_to_grounded_info", "raised"}
        /\ gf_log = <<"get_site_content">>
        /\ gf_grounded = PyNone
        /\ gf_field = PyNone

\* C10 witness: the run raised on an empty page list.
C10_Witness ==
    /\ gf_pc = "raised"
    /\ gf_site_content = <<>>

\* C12: when the search call of the fill stage does not come back with
\* results (the provider failed), the run does not fail: it goes on to
\* return, with the grounded record of stage 2 as the value to write.
C12_SearchFailureFallsBack ==
    [][(gf_pc = "search" /\ gf_pc' # "process_data") =>
            (gf_pc' = "return" /\ gf_final' = gf_grounded)]_vars

\* A field value without any gap in it.
Populated(x) == ~HasGap(x)

\* The merge call has returned.
Merged == Occurrences(gf_log, "llm_merge") = 1

\* C13: the record returned by the merge stage has the fields of the
\* grounded record, and every field that was populated in the grounded
\* record holds exactly the grounded value.
C13_MergePreservesPopulated ==
    Merged =>
        /\ Len(gf_final.v) = Len(gf_grounded.v)
        /\ \A i \in 1..Len(gf_grounded.v) :
              Populated(gf_grounded.v[i]) => gf_final.v[i] = gf_grounded.v[i]

(***************************************************************************)
(* Properties of the orchestrator under failures.                          *)
(***************************************************************************)
\* C14: when one of the two branches raises, the request does not fail and
\* the other branch is not cancelled.
C14_PartialReport ==
    (\E a \in Agents : task[a] = "raised") =>
        /\ ostatus # "failed"
        /\ \A b \in Agents : task[b] # "cancelled"

(***************************************************************************)
(* Properties of the search port and of the stages that call it.           *)
(***************************************************************************)
\* No response of the list carries an answer or a candidate.
NoEvidence(responses) ==
    \A i \in 1..Len(responses) :
        responses[i].answer = None /\ responses[i].candidates = <<>>

\* C18: when the batch search returns no result for any query (an empty
\* list, or only responses without answer and without candidates), the
\* search-and-answer stage raises, makes no answer call and appends no
\* Expert turn.
C18_EmptySearchRaises ==
    (search_pc = "returned" /\ node[Financial] # "idle" /\ NoEvidence(search_output)) =>
        /\ node[Financial] = "raised"
        /\ llm_calls[Financial].answer = 0
        /\ ExpertCount(messages[Financial]) = 0

\* The provider returned a result (not a falsy value) for every query.
ResultForEach == AllReturned /\ \A i \in 1..Len(calls) : ~calls[i].res.empty

\* C19: when the provider returns a result for each of the n queries of a
\* batch, search returns n responses, the i-th being the response to the
\* i-th query.
C19_OneResponsePerQuery ==
    (search_pc = "returned" /\ ResultForEach) =>
        /\ Len(search_output) = Len(batch)
        /\ \A i \in 1..Len(batch) : search_output[i].query = batch[i]

\* C19 witness: a batch of three queries, one of them asked twice, one
\* answered without an answer text, each with its response.
C19_Witness ==
    /\ search_pc = "returned"
    /\ ResultForEach
    /\ batch = <<"q1", "q2", "q1">>
    /\ Len(search_output) = 3
    /\ search_output[2].answer = None
    /\ search_output[3].answer = "a"

\* Three queries, all answered, exactly one of them with an empty result list.
TwoOfThree ==
    /\ Len(batch) = 3
    /\ ResultForEach
    /\ Cardinality({i \in 1..Len(calls) : calls[i].res.results = <<>>}) = 1

\* C20: when two of three queries come back with candidates and one with an
\* empty candidate list, search returns the three responses in order, the
\* empty one with no candidates; one provider call was made per query; and
\* the gap-fill run does not raise and, once it returns, has run the merge
\* stage exactly once, on these three responses.
C20_EmptyResponseKept ==
    (search_pc = "returned" /\ TwoOfThree /\ gf_pc # "none") =>
        /\ Len(calls) = 3
        /\ Len(search_output) = 3
        /\ \A i \in 1..3 :
              /\ search_output[i].query = batch[i]
              /\ search_output[i].candidates = calls[i].res.results
        /\ gf_pc \in {"process_data", "return", "done"}
        /\ Occurrences(gf_log, "search") = 1
        /\ gf_pc \in {"return", "done"} =>
              /\ Occurrences(gf_log, "llm_merge") = 1
              /\ gf_merge_input = search_output

\* C20 witness: a finished gap-fill run whose merge was given three
\* responses, the second without candidates.
C20_Witness ==
    /\ gf_pc = "done"
    /\ TwoOfThree
    /\ Len(gf_merge_input) = 3
    /\ gf_merge_input[1].candidates # <<>>
    /\ gf_merge_input[2].candidates = <<>>
    /\ gf_merge_input[3].candidates # <<>>

(***************************************************************************)
(* Properties of the ResearchManager workflow.                             *)
(***************************************************************************)
\* C11: when a node of the workflow aborts with a fatal error, the errors
\* list of the request's state holds an entry for it.
C11_ErrorRecorded ==
    mg_status = "failed" => mg_state["errors"].v # <<>>

\* The order of the agents in the chain.
MgrOrder == <<BackgroundAgent, FinancialHealthAgent, MarketPositionAgent, NewsAgent>>

\* A node is started only once its predecessor's patch is in the state.
StartedAfterMerge ==
    /\ \A a \in Agents : node[a] # "idle" => cstate.company_background # None
    /\ Len(mg_started) >= 2 =>
          mg_state["current_step"] = PyStr(<<mg_started[Len(mg_started) - 1]>>)

\* The agents are started in the order of the chain, none of them twice.
StartedInOrder == IsPrefix(mg_started, MgrOrder)

\* The node stopped at an error of its own stages: nothing to ground, or a
\* failed search.
StageError ==
    /\ gf_pc = "raised"
    /\ \/ gf_log = <<"get_site_content">> /\ gf_site_content = <<>>
       \/ gf_log # <<>> /\ gf_log[Len(gf_log)] = "search"

\* C15: a successor starts only after its predecessor has returned and its
\* patch is merged (no topic agent before company_background is set; no
\* agent of the chain before the one before it), and a request of
\* ResearchManager that has ended has run the four agents once each, in the
\* order background, financial health, market position, news, unless one of
\* them stopped at an error of its own stages.
C15_LinearOrder ==
    /\ StartedAfterMerge
    /\ StartedInOrder
    /\ (mg_status \in {"END", "failed"} /\ ~StageError) => mg_started = MgrOrder

\* C16: the crawler is called once in a run, by the background agent; the
\* page list the background agent returned as site_content is in the state,
\* and every later agent has read exactly that list before it grounds.
C16_SingleCrawl ==
    /\ crawl_calls <= 1
    /\ (mg_started # <<>> /\ ~(mg_node = BackgroundAgent /\ gf_pc = "get_site_content")) =>
          crawl_calls = 1
    /\ "site_content" \in DOMAIN mg_last_return =>
          /\ "site_content" \in DOMAIN mg_state
          /\ mg_state["site_content"] = mg_last_return["site_content"]
    /\ (mg_status \in {"running", "failed"} /\ mg_node # BackgroundAgent
            /\ gf_pc # "get_site_content") =>
          /\ gf_log # <<>>
          /\ "site_content" \in DOMAIN mg_state
          /\ gf_site_content = mg_state["site_content"].v

\* C17: the orchestrator graph is compiled once and its edges never change;
\* concurrent perform_research calls each own their state: every field
\* value, pending write, transcript turn, result and output of a call is
\* produced from that call's own company only.
OwnCompany(r, x) == x.about \subseteq {requests[r].input.company_name}
C17_RequestsIsolated ==
    /\ compiled_edges = Edges
    /\ \A r \in Requests :
          /\ requests[r].input = ResearchInputOf(r)
          /\ requests[r].cstate.company_background \in {None, requests[r].input.company_name}
          /\ \A i \in 1..Len(requests[r].cstate.results) : OwnCompany(r, requests[r].cstate.results[i])
          /\ \A n \in ParentNodes :
                /\ requests[r].writes[n].company_background \in {None, requests[r].input.company_name}
                /\ \A i \in 1..Len(requests[r].writes[n].results) : OwnCompany(r, requests[r].writes[n].results[i])
          /\ \A a \in Agents : \A i \in 1..Len(requests[r].transcript[a]) :
                OwnCompany(r, requests[r].transcript[a][i])
          /\ \A i \in 1..Len(requests[r].output) : OwnCompany(r, requests[r].output[i])

\* Two calls in flight together: one has merged both topic results and is
\* summarizing, the other returned its report while the first was running.
C17_Witness ==
    \E r, q \in Requests :
        /\ r # q
        /\ requests[r].status = "running"
        /\ requests[r].task[Summarize] = "running"
        /\ Len(requests[r].cstate.results) = 2
        /\ requests[q].status = "END"
        /\ requests[q].output # <<>>
        /\ requests[q].transcript[Financial] # <<>>


\* C21: the batch handed to the Search Port in the conditional-fill stage
\* holds at most max_queries queries, whatever the query-generating
\* language-model call answered.
SearchSubmitted == \E i \in 1..Len(gf_log) : gf_log[i] = "search"
C21_QueriesBounded == SearchSubmitted => gf_search_input <= DefaultMaxQueries

\* C22: the two fan-out branches are started on the same predecessor state
\* (the one background_research's patch was merged into, untouched while
\* either of them runs) and write disjoint fields of CompanyResearchState:
\* no field is written by both.
WrittenFields(n) == {f \in DOMAIN NoPatch : writes[n][f] # NoPatch[f]}
BranchActive(a) == task[a] \in {"running", "finished", "raised", "cancelled"}
C22_BranchesDisjoint ==
    /\ (\E a \in Agents : BranchActive(a)) =>
          /\ \A a \in Agents : BranchActive(a)
          /\ cstate = [InitialState EXCEPT !.company_background = "background"]
    /\ WrittenFields(Financial) \cap WrittenFields(Market) = {}

\* C26: in a TopicResearchAgent run the transcript alternates Interviewer,
\* Expert, Interviewer, ... starting with an Interviewer turn; the routing
\* decision is taken on a non-empty transcript whose last turn is the
\* Interviewer's; and when summarize_results starts there is one more
\* Interviewer turn than Expert turns, ask_question having run at least once.
Alternates(msgs) ==
    \A i \in 1..Len(msgs) : msgs[i].name = IF i % 2 = 1 THEN "Interviewer" ELSE "Expert"
InterviewerCount(msgs) == Cardinality({i \in 1..Len(msgs) : msgs[i].name = "Interviewer"})
C26_TranscriptAlternates ==
    /\ Alternates(messages[Financial])
    /\ node[Financial] = "route" =>
          /\ messages[Financial] # <<>>
          /\ messages[Financial][Len(messages[Financial])].name = "Interviewer"
    /\ node[Financial] = "summarize_results" =>
          /\ InterviewerCount(messages[Financial]) = ExpertCount(messages[Financial]) + 1
          /\ llm_calls[Financial].ask >= 1

\* summarize_results is about to start after two full rounds and a closing
\* Interviewer turn.
C26_Witness ==
    /\ node[Financial] = "summarize_results"
    /\ Len(messages[Financial]) = 5
    /\ ExpertCount(messages[Financial]) = 2

\* C27: the topic agent's transcript is append-only: every step leaves the
\* turns already there in place and in order; ask_question and a completed
\* search_web_and_answer each add exactly one turn at the end; the start
\* edge, the routing decision and summarize_results add none.
TranscriptStep(a) ==
    /\ IsPrefix(messages[a], messages'[a])
    /\ node[a] = "ask_question" /\ node'[a] = "route" =>
          Len(messages'[a]) = Len(messages[a]) + 1
    /\ node[a] = "search_web_and_answer" /\ node'[a] = "ask_question" =>
          Len(messages'[a]) = Len(messages[a]) + 1
    /\ node[a] \in {"START", "route", "summarize_results"} \/ node'[a] = "raised" =>
          messages'[a] = messages[a]
C27_TranscriptAppendOnly == [][TranscriptStep(Financial)]_vars

\* A second question has been appended behind a question and its answer.
C27_Witness ==
    /\ node[Financial] = "route"
    /\ Len(messages[Financial]) = 3
    /\ llm_calls[Financial].ask = 2

\* C28: summarize_results is terminal in the topic agent: it runs only from
\* the summarize_results node, makes one language-model call and no other,
\* leaves the run at END with exactly one summary (its own) in results, and
\* once it has run no ask, search or route step follows.
SummarizeStep(a) ==
    /\ llm_calls[a].summarize = 0 /\ llm_calls'[a].summarize # 0 =>
          /\ node[a] = "summarize_results"
          /\ node'[a] = "END"
          /\ llm_calls'[a] = [llm_calls[a] EXCEPT !.summarize = 1]
          /\ search_calls'[a] = search_calls[a]
          /\ results'[a] = <<[summary_of |-> a, turns |-> Len(messages[a])]>>
    /\ node'[a] = "END" => llm_calls'[a].summarize = 1 /\ Len(results'[a]) = 1
    /\ llm_calls[a].summarize # 0 => topicVars' = topicVars
C28_SummarizeTerminal == [][SummarizeStep(Financial)]_vars

\* A completed run that went through one search round.
C28_Witness ==
    /\ node[Financial] = "END"
    /\ Len(results[Financial]) = 1
    /\ search_calls[Financial] = 1
    /\ Len(messages[Financial]) = 3

\* C29: when the orchestrator's summarize_results starts, and in the state
\* it reads, results holds exactly two summaries: the one the
\* financial-health branch returned and the one the market-position branch
\* returned, each once, whatever the order in which the branches ran.
TwoSummaries(state) ==
    /\ Len(state.results) = 2
    /\ \A a \in Agents :
          /\ results[a] # <<>>
          /\ Cardinality({i \in 1..Len(state.results) : state.results[i] = results[a][1]}) = 1
C29_BothSummariesMerged ==
    /\ task[Summarize] = "running" => TwoSummaries(cstate)
    /\ summarize_runs > 0 => TwoSummaries(summarize_input)

\* summarize_results has started on the summaries of a short market-position
\* interview and a longer financial-health one.
C29_Witness ==
    /\ task[Summarize] = "running"
    /\ summarize_runs = 0
    /\ cstate.results = <<results[Financial][1], results[Market][1]>>
    /\ Len(messages[Market]) < Len(messages[Financial])

\* C30: the state run_agent_workflow returns differs from its input state
\* only in the agent's own field, in current_step (the agent's class name)
\* and, for the background agent, in site_content; every other field,
\* errors and the other agents' records included, is the input's; and the
\* input state is not changed while the agent runs.
MgrAgents == {BackgroundAgent, FinancialHealthAgent, MarketPositionAgent, NewsAgent}
OwnKeys(n) ==
    {StateFieldName(n), "current_step"} \cup (IF n = BackgroundAgent THEN {"site_content"} ELSE {})
FrameKept(input, returned, n) ==
    /\ DOMAIN returned = DOMAIN input \cup OwnKeys(n)
    /\ \A k \in DOMAIN input \ OwnKeys(n) : returned[k] = input[k]
    /\ returned["current_step"] = PyStr(<<n>>)
ReturnStep ==
    /\ mg_last_return' # mg_last_return =>
          /\ FrameKept(mg_state, mg_last_return', mg_node)
          /\ mg_last_return'[StateFieldName(mg_node)] = gf_field
    /\ mg_last_return' = mg_last_return /\ mg_status = "running" => mg_state' = mg_state
Logged(entry) == \E i \in 1..Len(gf_log) : gf_log[i] = entry
C25_LegacyShortCircuit ==
    (gf_grounded # PyNone /\ ~Truthy(check_missing_fields(gf_grounded))) =>
        ~Logged("llm_queries") /\ ~Logged("search")

\* C24: in the orchestrated run, a crawl that returns no pages makes the
\* background research fail with no language-model call made and no batch
\* search issued.
BgCalled(call) == \E i \in 1..Len(bg_log) : bg_log[i].call = call
CrawledNothing == \E i \in 1..Len(bg_log) : bg_log[i] = [call |-> "crawl", n |-> 0]
C24_NoContentFails ==
    (ostatus = "running" /\ CrawledNothing) =>
        /\ bg_node = "raised"
        /\ ~BgCalled("llm")
        /\ ~BgCalled("search")

\* C23: a topic agent's transcript is private to its run: it is empty when
\* the agent is started; a turn is added to it only by a step of that agent,
\* and that step changes neither the sibling's transcript nor the background
\* agent's, whose turns (Researcher, Reviewer) exist only before the topic
\* agents start; the parent state never holds a transcript turn: its
\* messages stay empty and results holds nothing but the agents' summaries.
TopicSummaries == {results[a][i] : a \in {b \in Agents : results[b] # <<>>}, i \in {1}}
OnlySummaries(patch) ==
    /\ patch.messages = <<>>
    /\ \A i \in 1..Len(patch.results) : patch.results[i] \in TopicSummaries
TranscriptsApart ==
    /\ OnlySummaries(cstate)
    /\ \A n \in ParentNodes : OnlySummaries(writes[n])
    /\ \A a \in Agents : \A i \in 1..Len(messages[a]) :
          messages[a][i].name \in {"Interviewer", "Expert"}
    /\ \A i \in 1..Len(bg_messages) : bg_messages[i].name \in {"Researcher", "Reviewer"}
    /\ bg_messages # <<>> => \A a \in Agents : messages[a] = <<>>
TranscriptOwnerStep ==
    /\ \A a \in Agents :
          /\ task[a] # "running" /\ task'[a] = "running" => messages'[a] = <<>>
          /\ messages'[a] # messages[a] =>
                /\ task[a] = "running"
                /\ node'[a] # node[a]
                /\ \A b \in Agents \ {a} : messages'[b] = messages[b] /\ node'[b] = node[b]
                /\ bg_messages' = bg_messages
    /\ bg_messages' # bg_messages => messages' = messages
C23_TranscriptPrivate == []TranscriptsApart /\ [][TranscriptOwnerStep]_vars

\* The financial-health branch has handed over its summary while the
\* market-position interview, of another length, is still going on.
C23_Witness ==
    /\ task[Financial] = "finished"
    /\ writes[Financial].results = results[Financial]
    /\ results[Financial] # <<>>
    /\ task[Market] = "running"
    /\ node[Market] = "search_web_and_answer"
    /\ Len(messages[Financial]) > Len(messages[Market])

\* C31: every key a gap-fill agent puts in its state update (its own field,
\* current_step, and site_content for the background agent) is a declared
\* field of ResearchState, so that whatever a node returned under those keys
\* is in the merged state the next node and the response conversion read.
C31_PatchFieldsDeclared ==
    mg_status # "idle" =>
        /\ \A n \in MgrAgents : DOMAIN StateUpdates(n) \subseteq Channels
        /\ \A k \in DOMAIN mg_last_return :
              k \in DOMAIN mg_state /\ mg_state[k] = mg_last_return[k]

(***************************************************************************)
(* Properties of the batch search of TavilyClient.                         *)
(***************************************************************************)
\* C32: search starts one provider call per query of the batch, all of them
\* before any has completed; it returns only when every call has returned;
\* and once a call has raised the search never returns: it raises, and the
\* caller holds no response of the batch, not even those of the calls that
\* returned.
C32_NoPartialBatch ==
    /\ search_pc # "idle" => Len(calls) = Len(batch)
    /\ search_pc = "returned" => \A i \in 1..Len(calls) : calls[i].st = "returned"
    /\ (\E i \in 1..Len(calls) : calls[i].st = "raised") =>
          /\ search_pc \in {"gathering", "raised"}
          /\ search_output = <<>>
          /\ gf_merge_input = <<>>
    /\ search_pc = "raised" => search_output = <<>>

\* C32 witness: of three queries one raised after another had returned a
\* non-empty result; the search raised and nothing was returned.
C32_Witness ==
    /\ search_pc = "raised"
    /\ Len(batch) = 3
    /\ calls[1].st = "returned" /\ ~calls[1].res.empty
    /\ calls[2].st = "raised"
    /\ search_output = <<>>

(***************************************************************************)
(* Properties of the BackgroundAgent graph.                                *)
(***************************************************************************)
BgOrder == {<<"crawl_and_gather_background", "review">>,
            <<"review", "search_and_answer">>,
            <<"search_and_answer", "summarize">>,
            <<"summarize", "END">>}

\* The external calls of a run, as call kind and (for a model call) the
\* number of messages sent.
BgCalls == [i \in 1..Len(bg_log) |->
               IF bg_log[i].call = "llm" THEN <<"llm", bg_log[i].n>>
               ELSE <<bg_log[i].call>>]

\* C33: a run of the BackgroundAgent graph that does not raise moves from
\* crawl_and_gather_background to review, search_and_answer, summarize and
\* END, one node after the other; a run that reached END made the calls of
\* each of the four nodes exactly once and in that order, with exactly one
\* crawl and exactly one batch search, whatever the Reviewer listed; and
\* when summarize starts the transcript holds exactly the three turns
\* Researcher, Reviewer, Researcher.
C33_FixedPipeline ==
    /\ [](bg_node = "summarize" =>
            [i \in 1..Len(bg_messages) |-> bg_messages[i].name]
                = <<"Researcher", "Reviewer", "Researcher">>)
    /\ [](bg_node = "END" =>
            BgCalls = << <<"crawl">>, <<"llm", 1>>,
                         <<"llm", 2>>,
                         <<"llm", 3>>, <<"search">>, <<"llm", 3>>,
                         <<"llm", 4>> >>)
    /\ [][bg_node' # bg_node =>
             (<<bg_node, bg_node'>> \in BgOrder \/ bg_node' = "raised")]_vars

\* C33 witness: a finished run whose Reviewer listed nothing missing and
\* whose batch search had no query.
C33_Witness ==
    /\ bg_node = "END"
    /\ bg_messages[2].content.n = 0
    /\ \E i \in 1..Len(bg_log) : bg_log[i] = [call |-> "search", n |-> 0]
    /\ Len(bg_output.internal_messages) = 4

(***************************************************************************)
(* Properties of the linear workflow.                                      *)
(***************************************************************************)
\* The step is a run of background_researcher in which the search or the
\* processing of its result raised.
BackgroundRaisedStep ==
    /\ wf_node = "background_researcher"
    /\ wf_log' # wf_log
    /\ wf_log'[Len(wf_log')].raised

\* C34: when the search or the processing of its result raises inside
\* company_background_agent, the node catches it: errors gets exactly one
\* more entry, company_background becomes "Background research failed",
\* every other field keeps its value, and financial_analyzer runs next.
C34_BackgroundErrorCaught ==
    [][BackgroundRaisedStep =>
          /\ Len(wf_state'.errors) = Len(wf_state.errors) + 1
          /\ SubSeq(wf_state'.errors, 1, Len(wf_state.errors)) = wf_state.errors
          /\ wf_state'.company_background = "Background research failed"
          /\ \A k \in DOMAIN wf_state \ {"errors", "company_background"} :
                wf_state'[k] = wf_state[k]
          /\ wf_node' = "financial_analyzer"]_vars

\* C34 witness: the search returned a body whose processing raised, and the
\* run went on to the end with the failure text as its background.
C34_Witness ==
    /\ wf_node = "END"
    /\ wf_log[1].raised /\ wf_log[1].search = "ok"
    /\ wf_state.errors = <<"Background research error">>
    /\ wf_state.current_step = "starting"
    /\ wf_state.final_report[3] = "Background research failed"

\* Every request of the run so far failed.
AllRequestsFailed ==
    \A i \in 1..Len(wf_log) : wf_log[i].search \in {"failed", "none"}

WfNodeOrder == <<"background_researcher", "financial_analyzer", "market_researcher",
                 "news_researcher", "report_synthesizer">>

\* C35: in a run of the linear workflow in which every request to the
\* search provider fails, the client returns the error value and nothing
\* raises, the nodes run in the order of the chain, no call of the language
\* model is made, and at the end all five nodes have run, the background,
\* financial and market sections hold their "not available" texts,
\* recent_news is empty and final_report is set.
C35_AllSearchesFail ==
    AllRequestsFailed =>
        /\ wf_node # "raised"
        /\ \A i \in 1..Len(wf_log) :
              /\ ~wf_log[i].raised
              /\ wf_log[i].llm = 0
              /\ wf_log[i].node = WfNodeOrder[i]
        /\ wf_node = "END" =>
              /\ Len(wf_log) = 5
              /\ wf_state.company_background = "Background information not available"
              /\ wf_state.financial_data.summary = "Financial data not available"
              /\ wf_state.market_position = "Market position data not available"
              /\ wf_state.recent_news = <<>>
              /\ wf_state.errors = <<>>
              /\ wf_state.final_report =
                    <<"acme", "acme.example", "Background information not available",
                      "Financial data not available", "Market position data not available">>

\* C35 witness: a finished run whose four requests all failed.
C35_Witness ==
    /\ wf_node = "END"
    /\ \A i \in 1..4 : wf_log[i].search = "failed"
    /\ wf_state.final_report # <<>>

(***************************************************************************)
(* Properties of SearchResponse.to_string.                                 *)
(***************************************************************************)
\* The titles of the candidates listed in the rendering, in order.
Listed ==
    LET heads == SelectSeq(ts_lines, LAMBDA l : l.line = "title")
    IN  [i \in 1..Len(heads) |-> heads[i].of]

\* The score of the candidate of the response that has this title.
ScoreOf(title) ==
    LET c == CHOOSE c \in {ts_response.candidates[i] : i \in 1..Len(ts_response.candidates)} :
                 c.title = title
    IN  c.score

\* C36: to_string(top_k) of a response with n candidates lists exactly
\* min(top_k, n) of them, each once; the listed ones are in non-increasing
\* order of score and no candidate left out has a higher score than a
\* listed one; no candidate is left out for its score: when n <= top_k
\* every candidate is listed, those of score 0 too.
C36_TopKByScore ==
    ts_pc = "done" =>
        LET cands == ts_response.candidates
            n == Len(cands)
            titles == {cands[i].title : i \in 1..n}
            shown == {Listed[i] : i \in 1..Len(Listed)}
        IN  /\ Len(Listed) = (IF ts_top_k < n THEN ts_top_k ELSE n)
            /\ Cardinality(shown) = Len(Listed)
            /\ shown \subseteq titles
            /\ \A i, j \in 1..Len(Listed) : i < j => ScoreOf(Listed[i]) >= ScoreOf(Listed[j])
            /\ \A t \in titles \ shown : \A l \in shown : ScoreOf(l) >= ScoreOf(t)
            /\ n <= ts_top_k => shown = titles

\* C36 witness: three candidates, two of them of score 0, rendered with
\* top_k 3: all three are listed, the scored one first.
C36_Witness ==
    /\ ts_pc = "done"
    /\ ts_top_k = 3
    /\ Len(ts_response.candidates) = 3
    /\ ts_response.candidates[1].score = 0
    /\ ts_response.candidates[2].score = 2
    /\ ts_response.candidates[3].score = 0
    /\ Listed = <<"2", "1", "3">>

====
